---- MODULE Spec2Model ----
(***************************************************************************)
(* tokenipsum: the request pipeline of the mock LLM API server.            *)
(*                                                                         *)
(* The shared RuntimeState (configuration, atomic request counter, locked  *)
(* generator) of src/src/config.rs and the two middleware layers of        *)
(* src/src/lib.rs, with the error responses of src/src/errors.rs.          *)
(* Every request is one task; tasks run on a multi-threaded runtime, so    *)
(* the steps of different requests interleave at every access to shared    *)
(* state.  The provider handlers (src/src/cerebras.rs, claude.rs,          *)
(* gemini.rs, openai.rs) and the content generator (src/src/generator.rs)  *)
(* follow: each request owns one generator and, when it streams, one       *)
(* paced fragment stream.                                                  *)
(*                                                                         *)
(* Strings are tuples of one-character strings, so that prefix stripping,  *)
(* trimming and substring search are computed as the code computes them.   *)
(***************************************************************************)
EXTENDS Integers, Sequences, FiniteSets, TLC

VARIABLES config, request_count, rng, req, gen, stream

vars == <<config, request_count, rng, req, gen, stream>>

(***************************************************************************)
(* Bounds of the model.                                                    *)
(***************************************************************************)
\* Number of requests in flight in the concurrent specification.
MaxRequests == 2
\* Number of requests served one after the other in the sequential one.
MaxSeqRequests == 3
\* Largest configured fail_after_requests.
MaxFailAfter == 2
\* Largest counter value should_error is called at on its own.
MaxCount == 3

(***************************************************************************)
(* Strings.                                                                *)
(***************************************************************************)
BearerPrefix == <<"B", "e", "a", "r", "e", "r", " ">>
Key1 == <<"k", "1">>
Key2 == <<"k", "2">>
KeyWrong == <<"w", "r", "o", "n", "g">>

\* A header byte outside visible ASCII, on which HeaderValue::to_str fails.
NonAsciiByte == "\\x80"

NoHeader == <<"<none>">>

HdrBearerK1 == BearerPrefix \o Key1
HdrBearerK2 == BearerPrefix \o Key2
HdrBearerWrong == BearerPrefix \o KeyWrong
HdrBareK1 == Key1
HdrDoubleBearerK1 == BearerPrefix \o BearerPrefix \o Key1
HdrLowerBearerK1 == <<"b", "e", "a", "r", "e", "r", " ">> \o Key1
HdrPaddedK1 == BearerPrefix \o <<" ">> \o Key1 \o <<" ">>
HdrBearerOnly == BearerPrefix
HdrOpaque == BearerPrefix \o <<"k", NonAsciiByte>>

PathHealth == <<"/", "h", "e", "a", "l", "t", "h">>
PathChat == <<"/", "v", "1", "/", "c", "h", "a", "t", "/", "c", "o", "m", "p", "l", "e", "t", "i", "o", "n", "s">>
PathMessages == <<"/", "v", "1", "/", "m", "e", "s", "s", "a", "g", "e", "s">>
PathResponses == <<"/", "v", "1", "/", "r", "e", "s", "p", "o", "n", "s", "e", "s">>
PathGeminiPrefix == <<"/", "v", "1", "b", "e", "t", "a", "/", "m", "o", "d", "e", "l", "s">>
GenerateContent == <<"g", "e", "n", "e", "r", "a", "t", "e", "C", "o", "n", "t", "e", "n", "t">>
StreamGenerateContent == <<"s", "t", "r", "e", "a", "m", "G">> \o SubSeq(GenerateContent, 2, 15)
PathGemini == PathGeminiPrefix \o <<"/", "g", ":">> \o GenerateContent
PathGeminiStream == PathGeminiPrefix \o <<"/", "g", ":">> \o StreamGenerateContent
PathGeminiUnknownAction == PathGeminiPrefix \o <<"/", "g", ":", "g", "e", "n">>
PathGeminiNoAction == PathGeminiPrefix \o <<"/", "g">>

IsPrefix(p, s) == Len(p) <= Len(s) /\ SubSeq(s, 1, Len(p)) = p

\* str::contains
Contains(s, pat) ==
    \E i \in 1..(Len(s) - Len(pat) + 1) : SubSeq(s, i, i + Len(pat) - 1) = pat

\* str::trim_start_matches(prefix): the prefix is removed as often as it leads.
RECURSIVE TrimStartMatches(_, _)
TrimStartMatches(s, p) ==
    IF p # <<>> /\ IsPrefix(p, s)
    THEN TrimStartMatches(SubSeq(s, Len(p) + 1, Len(s)), p)
    ELSE s

\* The White_Space code points, by the bytes each takes in UTF-8.  A
\* character TLA+ has no escape for is one element of a string, written as
\* its JSON escape.
\* One byte: U+0009 to U+000D and U+0020.
VerticalTab == "\\u000b"
AsciiWhiteSpace == {"\t", "\n", VerticalTab, "\f", "\r", " "}
\* Two bytes: U+0085 and U+00A0.
NoBreakSpace == "\\u00a0"
Latin1WhiteSpace == {"\\u0085", NoBreakSpace}
\* Three bytes: U+1680, U+2000 to U+200A, U+2028, U+2029, U+202F, U+205F
\* and U+3000.
EmSpace == "\\u2003"
WideWhiteSpace ==
    {"\\u1680", "\\u2000", "\\u2001", "\\u2002", EmSpace,
     "\\u2004", "\\u2005", "\\u2006",
     "\\u2007", "\\u2008", "\\u2009", "\\u200a",
     "\\u2028", "\\u2029", "\\u202f", "\\u205f", "\\u3000"}

\* char::is_whitespace
IsWhitespace(c) == c \in AsciiWhiteSpace \cup Latin1WhiteSpace \cup WideWhiteSpace

\* char::len_utf8 on the characters of the model: every other one is ASCII
\* (the opaque header byte counts as the one byte it is).
len_utf8(c) ==
    IF c \in Latin1WhiteSpace THEN 2 ELSE IF c \in WideWhiteSpace THEN 3 ELSE 1

\* str::len: the length in bytes, the sum of len_utf8 over the characters.
str_len(s) ==
    Len(s) + Cardinality({i \in 1..Len(s) : len_utf8(s[i]) >= 2})
           + Cardinality({i \in 1..Len(s) : len_utf8(s[i]) = 3})

RECURSIVE TrimStart(_)
TrimStart(s) ==
    IF s # <<>> /\ IsWhitespace(Head(s)) THEN TrimStart(Tail(s)) ELSE s

RECURSIVE TrimEnd(_)
TrimEnd(s) ==
    IF s # <<>> /\ IsWhitespace(s[Len(s)])
    THEN TrimEnd(SubSeq(s, 1, Len(s) - 1))
    ELSE s

\* str::trim
Trim(s) == TrimEnd(TrimStart(s))

\* HeaderValue::to_str(...).ok(): None on a byte that is not visible ASCII.
ToStr(h) ==
    IF \E i \in 1..Len(h) : h[i] = NonAsciiByte THEN NoHeader ELSE h

(***************************************************************************)
(* Configuration (config.rs, struct Config) and the values it ranges over. *)
(***************************************************************************)
ForceErrors == {"None", "Unauthorized", "RateLimit", "ServerError", "Timeout"}
ErrorTypes == {"Unauthorized", "RateLimit", "ServerError", "Timeout"}
Providers == {"Cerebras", "Gemini", "Claude", "OpenAI"}

AllEnabled == [cerebras |-> TRUE, gemini |-> TRUE, claude |-> TRUE, openai |-> TRUE]

\* Config::default(), the configuration every test starts from.
DefaultConfig ==
    [latency_ms |-> 0,
     fail_after_requests |-> 0,
     error_rate |-> 0,
     force_error |-> "None",
     require_auth |-> FALSE,
     valid_keys |-> <<>>,
     providers |-> AllEnabled]

LatencyChoices == {0, 100}
\* error_rate, in percent.
ErrorRates == {0, 50, 100}
KeyLists == {<<>>, <<Key1>>, <<Key1, Key2>>, <<KeyWrong, Key2>>}

\* Every configuration within the bounds.
ConfigSpace ==
    [latency_ms : LatencyChoices,
     fail_after_requests : 0..MaxFailAfter,
     error_rate : ErrorRates,
     force_error : ForceErrors,
     require_auth : BOOLEAN,
     valid_keys : {<<Key1, Key2>>},
     providers : {AllEnabled}]

(***************************************************************************)
(* The shared generator.  fastrand::Rng is an external crate; it is        *)
(* modelled as a deterministic generator over sixteen states (a           *)
(* full-period linear congruential generator) whose draws advance the      *)
(* state by one step each.  The float and the small integer are read off   *)
(* the high bits of the state they are drawn in, so that every outcome the *)
(* code can produce in one call is produced by some state at every error   *)
(* rate.                                                                   *)
(***************************************************************************)
RngStates == 0..15

RngStep(g) == (g * 13 + 9) % 16

\* Rng::with_seed
RngWithSeed(seed) == seed % 16

\* The value of rng.f32(), in percent: one of 0, 25, 50, 75.
RngF32(g) == (g \div 4) * 25

\* The value of rng.u8(0..3).
RngU8(g) == (g \div 4) % 3

(***************************************************************************)
(* RuntimeState (config.rs).                                               *)
(***************************************************************************)
\* Mutant: the value fetch_add itself returns (the previous count) is handed
\* back, without the + 1.
increment_requests_previous(count) == [count |-> count + 1, returned |-> count]

\* fetch_add(1) + 1: the new counter and the value returned to the caller.
increment_requests(count) == [count |-> count + 1, returned |-> count + 1]

\* Mutant: the threshold matches only the request that reaches it (== for >=).
should_error_fixed_exact(cfg, count) ==
    IF cfg.force_error # "None"
    THEN [error |-> cfg.force_error, decided |-> TRUE, loaded |-> 0]
    ELSE IF cfg.fail_after_requests > 0
         THEN IF count = cfg.fail_after_requests
              THEN [error |-> "RateLimit", decided |-> TRUE, loaded |-> count]
              ELSE [error |-> "None", decided |-> FALSE, loaded |-> count]
         ELSE [error |-> "None", decided |-> FALSE, loaded |-> 0]

\* Mutant: the threshold is exclusive (> for >=), as the comment of
\* test_rate_limit_after_requests has it.
should_error_fixed_exclusive(cfg, count) ==
    IF cfg.force_error # "None"
    THEN [error |-> cfg.force_error, decided |-> TRUE, loaded |-> 0]
    ELSE IF cfg.fail_after_requests > 0
         THEN IF count > cfg.fail_after_requests
              THEN [error |-> "RateLimit", decided |-> TRUE, loaded |-> count]
              ELSE [error |-> "None", decided |-> FALSE, loaded |-> count]
         ELSE [error |-> "None", decided |-> FALSE, loaded |-> 0]

\* Mutant: the threshold rule is evaluated before the forced fault.
should_error_fixed_threshold_first(cfg, count) ==
    IF cfg.fail_after_requests > 0 /\ count >= cfg.fail_after_requests
    THEN [error |-> "RateLimit", decided |-> TRUE, loaded |-> count]
    ELSE IF cfg.force_error # "None"
         THEN [error |-> cfg.force_error, decided |-> TRUE, loaded |-> 0]
         ELSE [error |-> "None", decided |-> FALSE,
               loaded |-> IF cfg.fail_after_requests > 0 THEN count ELSE 0]

\* Mutant: a forced fault is skipped while a threshold is configured.
should_error_fixed_force_unless_threshold(cfg, count) ==
    IF cfg.force_error # "None" /\ cfg.fail_after_requests = 0
    THEN [error |-> cfg.force_error, decided |-> TRUE, loaded |-> 0]
    ELSE IF cfg.fail_after_requests > 0
         THEN IF count >= cfg.fail_after_requests
              THEN [error |-> "RateLimit", decided |-> TRUE, loaded |-> count]
              ELSE [error |-> "None", decided |-> FALSE, loaded |-> count]
         ELSE [error |-> "None", decided |-> FALSE, loaded |-> 0]

\* should_error, lines 198-213: the forced fault and the threshold rule.
\* loaded is the counter value the threshold rule read (0: not read).
should_error_fixed(cfg, count) ==
    IF cfg.force_error # "None"
    THEN [error |-> cfg.force_error, decided |-> TRUE, loaded |-> 0]
    ELSE IF cfg.fail_after_requests > 0
         THEN IF count >= cfg.fail_after_requests
              THEN [error |-> "RateLimit", decided |-> TRUE, loaded |-> count]
              ELSE [error |-> "None", decided |-> FALSE, loaded |-> count]
         ELSE [error |-> "None", decided |-> FALSE, loaded |-> 0]

\* A probabilistic rule whose second draw selects among all four kinds.
should_error_random_any_kind(cfg, g) ==
    IF cfg.error_rate > 0
    THEN LET g1 == RngStep(g) IN
         IF RngF32(g1) < cfg.error_rate
         THEN LET g2 == RngStep(g1)
                  k == g2 % 4 IN
              [error |-> IF k = 0 THEN "Unauthorized"
                         ELSE IF k = 1 THEN "RateLimit"
                         ELSE IF k = 2 THEN "ServerError" ELSE "Timeout",
               rng |-> g2, draws |-> 2]
         ELSE [error |-> "None", rng |-> g1, draws |-> 1]
    ELSE [error |-> "None", rng |-> g, draws |-> 0]

\* should_error, lines 215-228: the probabilistic rule, under the rng lock.
should_error_random(cfg, g) ==
    IF cfg.error_rate > 0
    THEN LET g1 == RngStep(g) IN
         IF RngF32(g1) < cfg.error_rate
         THEN LET g2 == RngStep(g1)
                  k == RngU8(g2) IN
              [error |-> IF k = 0 THEN "Unauthorized"
                         ELSE IF k = 1 THEN "RateLimit" ELSE "ServerError",
               rng |-> g2, draws |-> 2]
         ELSE [error |-> "None", rng |-> g1, draws |-> 1]
    ELSE [error |-> "None", rng |-> g, draws |-> 0]

\* Mutant: the generator is drawn from before the forced fault and the
\* threshold rule are looked at.
should_error_draw_first(cfg, count, g) ==
    LET f == should_error_fixed(cfg, count)
        d == should_error_random(cfg, g) IN
    IF f.decided
    THEN [error |-> f.error, rng |-> d.rng, draws |-> d.draws, loaded |-> f.loaded]
    ELSE [error |-> d.error, rng |-> d.rng, draws |-> d.draws, loaded |-> f.loaded]

\* should_error as a whole, on the counter and generator it meets.
should_error(cfg, count, g) ==
    LET f == should_error_fixed(cfg, count) IN
    IF f.decided
    THEN [error |-> f.error, rng |-> g, draws |-> 0, loaded |-> f.loaded]
    ELSE LET d == should_error_random(cfg, g) IN
         [error |-> d.error, rng |-> d.rng, draws |-> d.draws, loaded |-> f.loaded]

SeqContains(list, x) == \E i \in 1..Len(list) : list[i] = x

\* Mutant: an absent key is let through.
is_valid_key_absent_ok(cfg, key) ==
    IF ~cfg.require_auth
    THEN TRUE
    ELSE IF key = NoHeader THEN TRUE ELSE SeqContains(cfg.valid_keys, key)

is_valid_key(cfg, key) ==
    IF ~cfg.require_auth
    THEN TRUE
    ELSE IF key = NoHeader THEN FALSE ELSE SeqContains(cfg.valid_keys, key)

latency_ms(cfg) == cfg.latency_ms

(***************************************************************************)
(* errors.rs                                                               *)
(***************************************************************************)
\* The error envelope of a provider; Cerebras and OpenAI share one.
Envelope(provider) ==
    IF provider \in {"Cerebras", "OpenAI"} THEN "openai"
    ELSE IF provider = "Gemini" THEN "google" ELSE "anthropic"

unauthorized(provider) ==
    [status |-> 401, kind |-> "Unauthorized", envelope |-> Envelope(provider),
     retry_after |-> "none"]

\* A rate-limit response that carries retry-after in the OpenAI envelope only.
rate_limit_retry_openai_only(provider) ==
    [status |-> 429, kind |-> "RateLimit", envelope |-> Envelope(provider),
     retry_after |-> IF provider \in {"Cerebras", "OpenAI"} THEN "1" ELSE "none"]

rate_limit(provider) ==
    [status |-> 429, kind |-> "RateLimit", envelope |-> Envelope(provider),
     retry_after |-> IF provider \in {"Cerebras", "OpenAI"} THEN "1" ELSE "60"]

server_error(provider) ==
    [status |-> 500, kind |-> "ServerError", envelope |-> Envelope(provider),
     retry_after |-> "none"]

timeout(provider) ==
    [status |-> 504, kind |-> "Timeout", envelope |-> Envelope(provider),
     retry_after |-> "none"]

error_response(error, provider) ==
    IF error = "Unauthorized" THEN unauthorized(provider)
    ELSE IF error = "RateLimit" THEN rate_limit(provider)
    ELSE IF error = "ServerError" THEN server_error(provider)
    ELSE timeout(provider)

(***************************************************************************)
(* lib.rs                                                                  *)
(***************************************************************************)
\* Mutant: "/v1/messages" is looked for before "/v1beta/models".
provider_from_path_messages_first(path) ==
    IF Contains(path, PathMessages) THEN "Claude"
    ELSE IF Contains(path, PathGeminiPrefix) THEN "Gemini"
    ELSE IF Contains(path, PathResponses) THEN "OpenAI"
    ELSE "Cerebras"

provider_from_path(path) ==
    IF Contains(path, PathGeminiPrefix) THEN "Gemini"
    ELSE IF Contains(path, PathMessages) THEN "Claude"
    ELSE IF Contains(path, PathResponses) THEN "OpenAI"
    ELSE "Cerebras"

\* Mutant: the "Bearer " prefix is not stripped.
ExtractKey_unstripped(header) ==
    IF header = NoHeader THEN NoHeader
    ELSE LET s == ToStr(header) IN
         IF s = NoHeader THEN NoHeader ELSE Trim(s)

\* Mutant: the "Bearer " prefix is removed once (strip_prefix).
ExtractKey_strip_once(header) ==
    IF header = NoHeader THEN NoHeader
    ELSE LET s == ToStr(header) IN
         IF s = NoHeader THEN NoHeader
         ELSE IF IsPrefix(BearerPrefix, s)
              THEN Trim(SubSeq(s, Len(BearerPrefix) + 1, Len(s)))
              ELSE Trim(s)

\* error_middleware, lines 124-128: the credential handed to is_valid_key.
ExtractKey(header) ==
    IF header = NoHeader THEN NoHeader
    ELSE LET s == ToStr(header) IN
         IF s = NoHeader THEN NoHeader
         ELSE Trim(TrimStartMatches(s, BearerPrefix))

\* Mutant: every provider route is mounted, whatever the enable flags say.
create_router_always_mounted(cfg, path) ==
    IF path = PathHealth THEN "health"
    ELSE IF path = PathChat THEN "cerebras_handler"
    ELSE IF IsPrefix(PathGeminiPrefix \o <<"/">>, path)
            /\ Len(path) > Len(PathGeminiPrefix) + 1
            /\ \A i \in (Len(PathGeminiPrefix) + 2)..Len(path) : path[i] # "/"
         THEN "gemini_handler"
    ELSE IF path = PathMessages THEN "claude_handler"
    ELSE IF path = PathResponses THEN "openai_handler"
    ELSE "not_found"

\* create_router: the handler a path is routed to under a configuration.
\* "/v1beta/models/{model_action}" matches one non-empty path segment.
create_router(cfg, path) ==
    IF path = PathHealth THEN "health"
    ELSE IF cfg.providers.cerebras /\ path = PathChat THEN "cerebras_handler"
    ELSE IF cfg.providers.gemini
            /\ IsPrefix(PathGeminiPrefix \o <<"/">>, path)
            /\ Len(path) > Len(PathGeminiPrefix) + 1
            /\ \A i \in (Len(PathGeminiPrefix) + 2)..Len(path) : path[i] # "/"
         THEN "gemini_handler"
    ELSE IF cfg.providers.claude /\ path = PathMessages THEN "claude_handler"
    ELSE IF cfg.providers.openai /\ path = PathResponses THEN "openai_handler"
    ELSE "not_found"

\* str::rsplit_once(':'): the position of the last ':' of s, 0 if it has none.
rsplit_once(s) ==
    IF \E i \in 1..Len(s) : s[i] = ":"
    THEN CHOOSE i \in 1..Len(s) :
             s[i] = ":" /\ \A j \in (i + 1)..Len(s) : s[j] # ":"
    ELSE 0

\* gemini::handle_model_action on the {model_action} segment of the path:
\* 400 without a ':', the completion for the two known actions after it,
\* 404 for any other action.
handle_model_action(model_action) ==
    LET at == rsplit_once(model_action)
        action == SubSeq(model_action, at + 1, Len(model_action)) IN
    IF at = 0
    THEN [status |-> 400, kind |-> "invalid_path", envelope |-> "none", retry_after |-> "none"]
    ELSE IF action \in {GenerateContent, StreamGenerateContent}
    THEN [status |-> 200, kind |-> "completion", envelope |-> "gemini_handler",
          retry_after |-> "none"]
    ELSE [status |-> 404, kind |-> "unknown_action", envelope |-> "none", retry_after |-> "none"]

\* The request bodies, by what serde_json::from_slice makes of them for the
\* handler's request type: "json" deserializes; "data" is well-formed JSON of
\* another shape ({}, [], a field of the wrong type: Category::Data);
\* "syntax" is not JSON (hello: Category::Syntax); "eof" ends before the
\* value does (a truncated or empty body: Category::Eof).
Bodies == {"json", "data", "syntax", "eof"}

JsonContentType == "application/json"
NoContentType == "<none>"
ContentTypes == {JsonContentType, NoContentType}

\* The Json<T> extractor in front of every provider handler (axum): 415
\* without a JSON content-type, 400 for a body that is not well-formed JSON,
\* 422 for well-formed JSON that is not a T; 0 when it hands T to the handler.
JsonRejection(content_type, body) ==
    IF content_type # JsonContentType THEN 415
    ELSE IF body \in {"syntax", "eof"} THEN 400
    ELSE IF body = "data" THEN 422
    ELSE 0

\* What the routed handler answers.  The Json extractor of a provider handler
\* rejects the request before the handler body runs; health extracts nothing.
HandlerResponse(handler, path, content_type, body) ==
    IF handler = "not_found"
    THEN [status |-> 404, kind |-> "not_found", envelope |-> "none", retry_after |-> "none"]
    ELSE IF handler = "health"
    THEN [status |-> 200, kind |-> "ok", envelope |-> "none", retry_after |-> "none"]
    ELSE IF JsonRejection(content_type, body) # 0
    THEN [status |-> JsonRejection(content_type, body), kind |-> "rejection",
          envelope |-> "none", retry_after |-> "none"]
    ELSE IF handler = "gemini_handler"
    THEN handle_model_action(SubSeq(path, Len(PathGeminiPrefix) + 2, Len(path)))
    ELSE [status |-> 200, kind |-> "completion", envelope |-> handler, retry_after |-> "none"]

(***************************************************************************)
(* Requests.  A request is one task; pc is its position in the layers      *)
(* create_router stacks: latency_middleware is the outer layer and runs    *)
(* first, error_middleware the inner one, the routed handler last.         *)
(***************************************************************************)
Stages == {"new", "count", "auth", "fault", "draw", "dispatch", "done"}

\* A request that has not arrived yet.
NewRequest ==
    [pc |-> "new", path |-> <<>>, header |-> NoHeader,
     content_type |-> JsonContentType, body |-> "json",
     slept |-> FALSE, ticket |-> 0, seen |-> 0, fault |-> "unevaluated",
     draws |-> 0, handler |-> "none", resp |-> <<>>]

\* The request envelopes the pipeline is exercised with: no credential, an
\* accepted one on a truncated body, one that is not among valid_keys.
PipelineRequests ==
    { [path |-> PathHealth, header |-> NoHeader,
       content_type |-> JsonContentType, body |-> "json"],
      [path |-> PathChat, header |-> HdrBearerK1,
       content_type |-> JsonContentType, body |-> "eof"],
      [path |-> PathMessages, header |-> HdrBearerWrong,
       content_type |-> JsonContentType, body |-> "json"] }

Requests == DOMAIN req

\* latency_middleware, entered by a request as it reaches the server (the
\* r-th request to arrive is request r): sleep for the base latency if it
\* is positive, then run the inner layers.
latency_middleware(r) ==
    /\ req[r].pc = "new"
    /\ IF r = 1 THEN TRUE ELSE req[r - 1].pc # "new"
    /\ \E e \in PipelineRequests :
         req' = [req EXCEPT ![r].pc = "count", ![r].path = e.path,
                            ![r].header = e.header,
                            ![r].content_type = e.content_type, ![r].body = e.body,
                            ![r].slept = (latency_ms(config) > 0)]
    /\ UNCHANGED <<config, request_count, rng, gen, stream>>

\* error_middleware, line 121: state.increment_requests().
error_middleware_count(r) ==
    /\ req[r].pc = "count"
    /\ LET inc == increment_requests(request_count) IN
         /\ request_count' = inc.count
         /\ req' = [req EXCEPT ![r].pc = "auth", ![r].ticket = inc.returned]
    /\ UNCHANGED <<config, rng, gen, stream>>

\* error_middleware, lines 123-134: the credential check.
error_middleware_auth(r) ==
    /\ req[r].pc = "auth"
    /\ IF config.require_auth /\ ~is_valid_key(config, ExtractKey(req[r].header))
       THEN req' = [req EXCEPT
                ![r].pc = "done",
                ![r].resp = Append(@, error_response("Unauthorized",
                                          provider_from_path(req[r].path)))]
       ELSE req' = [req EXCEPT ![r].pc = "fault"]
    /\ UNCHANGED <<config, request_count, rng, gen, stream>>

\* Mutant: the error response is built but the early return is missing, so
\* the request goes on to the handler.
error_middleware_fault_no_return(r) ==
    /\ req[r].pc = "fault"
    /\ LET f == should_error_fixed(config, request_count) IN
         IF f.decided
         THEN req' = [req EXCEPT
                  ![r].pc = "dispatch", ![r].seen = f.loaded, ![r].fault = f.error,
                  ![r].resp = Append(@, error_response(f.error,
                                            provider_from_path(req[r].path)))]
         ELSE IF config.error_rate > 0
         THEN req' = [req EXCEPT ![r].pc = "draw", ![r].seen = f.loaded]
         ELSE req' = [req EXCEPT ![r].pc = "dispatch", ![r].seen = f.loaded,
                                 ![r].fault = "None"]
    /\ UNCHANGED <<config, request_count, rng, gen, stream>>

\* error_middleware, line 136, should_error up to the threshold rule: it
\* reads the shared counter as it is now.  With error_rate = 0 should_error
\* returns None here, without taking the generator lock.
error_middleware_fault(r) ==
    /\ req[r].pc = "fault"
    /\ LET f == should_error_fixed(config, request_count) IN
         IF f.decided
         THEN req' = [req EXCEPT
                  ![r].pc = "done", ![r].seen = f.loaded, ![r].fault = f.error,
                  ![r].resp = Append(@, error_response(f.error,
                                            provider_from_path(req[r].path)))]
         ELSE IF config.error_rate > 0
         THEN req' = [req EXCEPT ![r].pc = "draw", ![r].seen = f.loaded]
         ELSE req' = [req EXCEPT ![r].pc = "dispatch", ![r].seen = f.loaded,
                                 ![r].fault = "None"]
    /\ UNCHANGED <<config, request_count, rng, gen, stream>>

\* error_middleware, line 136, the rest of should_error when error_rate > 0:
\* the probabilistic rule, both draws under one hold of the generator lock.
error_middleware_draw(r) ==
    /\ req[r].pc = "draw"
    /\ LET d == should_error_random(config, rng) IN
         /\ rng' = d.rng
         /\ IF d.error # "None"
            THEN req' = [req EXCEPT
                     ![r].pc = "done", ![r].fault = d.error, ![r].draws = d.draws,
                     ![r].resp = Append(@, error_response(d.error,
                                               provider_from_path(req[r].path)))]
            ELSE req' = [req EXCEPT ![r].pc = "dispatch", ![r].fault = "None",
                                    ![r].draws = d.draws]
    /\ UNCHANGED <<config, request_count, gen, stream>>

\* error_middleware, line 141: next.run(request), the routed handler.
error_middleware_next(r) ==
    /\ req[r].pc = "dispatch"
    /\ LET h == create_router(config, req[r].path) IN
         req' = [req EXCEPT ![r].pc = "done", ![r].handler = h,
                            ![r].resp = Append(@, HandlerResponse(h, req[r].path,
                                                   req[r].content_type, req[r].body))]
    /\ UNCHANGED <<config, request_count, rng, gen, stream>>

\* The configurations under which should_error can reach its random branch:
\* no forced error, a positive rate, and a threshold the first request (whose
\* count is 1) does not already meet.  Under every other one the generator
\* is never read, and one state stands for all.
DrawsFaults(cfg) ==
    /\ cfg.force_error = "None"
    /\ cfg.error_rate > 0
    /\ cfg.fail_after_requests # 1

\* RuntimeState::new on a configuration: Rng::with_seed(content.seed) when
\* content.deterministic is set, Rng::with_seed(fastrand::u64(..)) when it
\* is not (the default).  The seed is any u64 either way: any state.
EntropyRng(cfg) ==
    IF DrawsFaults(cfg) THEN RngStates ELSE {RngWithSeed(42)}

Init ==
    /\ config \in ConfigSpace
    /\ request_count = 0
    /\ rng \in EntropyRng(config)
    /\ req = [r \in 1..MaxRequests |-> NewRequest]
    /\ gen = <<>> /\ stream = <<>>

Next ==
    \/ \E r \in Requests : latency_middleware(r)
    \/ \E r \in Requests : error_middleware_count(r)
    \/ \E r \in Requests : error_middleware_auth(r)
    \/ \E r \in Requests : error_middleware_fault(r)
    \/ \E r \in Requests : error_middleware_draw(r)
    \/ \E r \in Requests : error_middleware_next(r)

\* Requests served concurrently.
Spec == Init /\ [][Next]_vars

(***************************************************************************)
(* Requests served one at a time: a request arrives only when every        *)
(* earlier one has been answered (the tests of lib.rs await each oneshot). *)
(***************************************************************************)
latency_middleware_seq(r) ==
    /\ \A q \in Requests : q < r => req[q].pc = "done"
    /\ latency_middleware(r)

InitSeq ==
    /\ config \in ConfigSpace
    /\ request_count = 0
    /\ rng \in EntropyRng(config)
    /\ req = [r \in 1..MaxSeqRequests |-> NewRequest]
    /\ gen = <<>> /\ stream = <<>>

NextSeq ==
    \/ \E r \in Requests : latency_middleware_seq(r)
    \/ \E r \in Requests : error_middleware_count(r)
    \/ \E r \in Requests : error_middleware_auth(r)
    \/ \E r \in Requests : error_middleware_fault(r)
    \/ \E r \in Requests : error_middleware_draw(r)
    \/ \E r \in Requests : error_middleware_next(r)

SpecSeq == InitSeq /\ [][NextSeq]_vars

(***************************************************************************)
(* should_error on its own: one request stands at the fault stage of       *)
(* error_middleware, for every configuration, counter and generator state. *)
(***************************************************************************)
FaultConfigSpace ==
    [latency_ms : {0},
     fail_after_requests : 0..MaxFailAfter,
     error_rate : ErrorRates,
     force_error : ForceErrors,
     require_auth : {FALSE},
     valid_keys : {<<>>},
     providers : {AllEnabled}]

\* state.should_error() as one call (config.rs, test_force_error).
should_error_call(r) ==
    /\ req[r].pc = "fault"
    /\ LET d == should_error(config, request_count, rng) IN
         /\ rng' = d.rng
         /\ IF d.error # "None"
            THEN req' = [req EXCEPT
                     ![r].pc = "done", ![r].seen = d.loaded, ![r].fault = d.error,
                     ![r].draws = d.draws,
                     ![r].resp = Append(@, error_response(d.error,
                                               provider_from_path(req[r].path)))]
            ELSE req' = [req EXCEPT ![r].pc = "dispatch", ![r].seen = d.loaded,
                                    ![r].fault = "None", ![r].draws = d.draws]
    /\ UNCHANGED <<config, request_count, gen, stream>>

InitFault ==
    /\ config \in FaultConfigSpace
    /\ request_count \in 0..MaxCount
    /\ rng \in RngStates
    /\ req = << [NewRequest EXCEPT !.pc = "fault", !.path = PathMessages] >>
    /\ gen = <<>> /\ stream = <<>>

NextFault ==
    \/ \E r \in Requests : should_error_call(r)
    \/ \E r \in Requests : error_middleware_next(r)

SpecFault == InitFault /\ [][NextFault]_vars

(***************************************************************************)
(* The Auth stage on its own: one counted request stands at the credential *)
(* check, for every header and key list; no fault is configured.           *)
(***************************************************************************)
Headers ==
    {NoHeader, HdrBearerK1, HdrBearerK2, HdrBearerWrong, HdrBareK1,
     HdrDoubleBearerK1, HdrLowerBearerK1, HdrPaddedK1, HdrBearerOnly, HdrOpaque}

AuthConfigSpace ==
    [latency_ms : {0},
     fail_after_requests : {0},
     error_rate : {0},
     force_error : {"None"},
     require_auth : BOOLEAN,
     valid_keys : KeyLists,
     providers : {AllEnabled}]

InitAuth ==
    /\ config \in AuthConfigSpace
    /\ request_count = 1
    /\ rng \in EntropyRng(config)
    /\ \E h \in Headers, p \in {PathHealth, PathMessages} :
         req = << [NewRequest EXCEPT !.pc = "auth", !.path = p, !.header = h,
                                     !.ticket = 1] >>
    /\ gen = <<>> /\ stream = <<>>

NextAuth ==
    \/ \E r \in Requests : error_middleware_auth(r)
    \/ \E r \in Requests : error_middleware_fault(r)
    \/ \E r \in Requests : error_middleware_next(r)

SpecAuth == InitAuth /\ [][NextAuth]_vars

(***************************************************************************)
(* Properties.                                                             *)
(***************************************************************************)
\* The requests whose Count stage has run.
Counted == {r \in Requests : req[r].pc \notin {"new", "count"}}

Answered(r) == req[r].pc = "done"

\* The status of the (single) response of an answered request.
StatusOf(r) == req[r].resp[1].status

\* The fault stage of r has run (should_error was evaluated at least up to
\* the threshold rule).
FaultStageRan(r) == req[r].pc = "draw" \/ req[r].fault # "unevaluated"

\* r was turned away by the credential check: answered without should_error.
RejectedByAuth(r) == Answered(r) /\ req[r].fault = "unevaluated"

\* r was turned away by should_error.
RejectedByFault(r) == Answered(r) /\ req[r].fault \in ErrorTypes

\* The threshold rule alone decides: fail_after_requests = N > 0, no forced
\* fault, no credential check.
ThresholdOnly ==
    /\ config.fail_after_requests > 0
    /\ config.force_error = "None"
    /\ ~config.require_auth

\* C1, state part: the counter equals the number of requests that ran their
\* Count stage, whatever became of them, and the values increment_requests
\* returned to them are exactly 1..N, each once.
C1_CountExact ==
    /\ request_count = Cardinality(Counted)
    /\ {req[r].ticket : r \in Counted} = 1..Cardinality(Counted)
    /\ \A r \in Requests \ Counted : req[r].ticket = 0

\* C1: every request that reaches error_middleware adds exactly 1 to
\* request_count, passed or rejected; after N Count stages, in any
\* interleaving, request_count = N and the returned values are 1..N each
\* once; no step decreases or resets the counter.
C1_RequestCounter ==
    /\ []C1_CountExact
    /\ [][request_count' >= request_count]_vars

\* C1 witness: every request is answered, two of them took their tickets in
\* the opposite order of their arrival, one was rejected by the credential
\* check and another by should_error.
C1_Witness ==
    /\ \A r \in Requests : Answered(r)
    /\ request_count = MaxRequests
    /\ \E a, b \in Requests : a < b /\ req[b].ticket < req[a].ticket
    /\ \E a, b \in Requests : RejectedByAuth(a) /\ RejectedByFault(b)

\* C2: with fail_after_requests = N > 0, no forced fault and no credential
\* check, a fault stage that runs when request_count >= N ends the request
\* with 429, and the counter never falls back below N.
C2_ThresholdSticks ==
    [][ThresholdOnly /\ request_count >= config.fail_after_requests =>
          /\ request_count' >= config.fail_after_requests
          /\ \A r \in Requests :
                (req[r].pc = "fault" /\ req'[r].pc # "fault") =>
                    /\ req'[r].pc = "done"
                    /\ req'[r].handler = "none"
                    /\ req'[r].resp = <<rate_limit(provider_from_path(req[r].path))>>
                    /\ req'[r].resp[1].status = 429]_vars

\* C2 witness: a request was rate-limited on a counter value above the
\* threshold, after another one had been rate-limited.
C2_Witness ==
    /\ ThresholdOnly
    /\ \E a, b \in Requests :
          /\ a # b
          /\ Answered(a) /\ StatusOf(a) = 429
          /\ Answered(b) /\ StatusOf(b) = 429
          /\ req[b].seen > config.fail_after_requests

\* C3: with fail_after_requests = N > 0, no forced fault and error_rate = 0,
\* a request is rate-limited iff the value its own increment returned is
\* >= N.
C3_OwnCountDecides ==
    (ThresholdOnly /\ config.error_rate = 0) =>
        \A r \in Requests :
            FaultStageRan(r) =>
                ((Answered(r) /\ StatusOf(r) = 429)
                    <=> req[r].ticket >= config.fail_after_requests)

\* C4: the counter is incremented before any latency suspension, and a
\* request rejected in the Auth or Fault stage was never suspended for the
\* base latency.
C4_CountBeforeLatency ==
    \A r \in Requests :
        /\ req[r].slept => req[r].ticket > 0
        /\ (RejectedByAuth(r) \/ RejectedByFault(r)) => ~req[r].slept

\* The status a forced fault kind is answered with.
ForcedStatus(kind) ==
    IF kind = "ServerError" THEN 500
    ELSE IF kind = "Timeout" THEN 504
    ELSE IF kind = "RateLimit" THEN 429 ELSE 401

\* C5 as stated: with force_error = ServerError every answered request has
\* status 500, and 504 with force_error = Timeout, whatever its path,
\* credential and body.
C5_ForcedErrorEveryRequest ==
    config.force_error \in {"ServerError", "Timeout"} =>
        \A r \in Requests :
            Answered(r) => StatusOf(r) = ForcedStatus(config.force_error)

\* C5 amended: with force_error = ServerError (Timeout), every request that
\* gets past the credential check is answered 500 (504) without reaching a
\* handler, whatever its path and body; a request the credential check
\* rejects is answered 401 instead.
C5_ForcedErrorAfterAuth ==
    config.force_error \in {"ServerError", "Timeout"} =>
        \A r \in Requests :
            Answered(r) =>
                /\ req[r].handler = "none"
                /\ Len(req[r].resp) = 1
                /\ IF RejectedByAuth(r)
                   THEN config.require_auth /\ StatusOf(r) = 401
                   ELSE StatusOf(r) = ForcedStatus(config.force_error)

\* C5 witness: under a forced ServerError, with auth required and a
\* threshold configured, a request with an accepted key and a truncated
\* body got 500 on a provider path.
C5_Witness ==
    /\ config.force_error = "ServerError"
    /\ config.require_auth
    /\ config.fail_after_requests > 0
    /\ \E a \in Requests :
          /\ Answered(a) /\ StatusOf(a) = 500
          /\ req[a].body = "eof" /\ req[a].path = PathChat

\* The credential a "Bearer <key>" header carries; NoHeader when absent.
BearerCredential(h) ==
    IF h = NoHeader THEN NoHeader ELSE SubSeq(h, Len(BearerPrefix) + 1, Len(h))

\* The request carries no credential or one that is not among valid_keys
\* (for the headers of PipelineRequests, all of the form "Bearer <key>").
BadCredential(r) ==
    \/ req[r].header = NoHeader
    \/ \A i \in 1..Len(config.valid_keys) :
          config.valid_keys[i] # BearerCredential(req[r].header)

\* The error envelope each path of PipelineRequests is answered in.
ExpectedEnvelope(path) ==
    IF path = PathMessages THEN "anthropic"
    ELSE IF path = PathGemini THEN "google" ELSE "openai"

PastAuth(r) == req[r].pc \in {"fault", "draw", "dispatch", "done"}

\* C6: when auth is required, a request without a credential, or with one
\* not in valid_keys, ends at the Auth stage with a 401 in the envelope of
\* its path's provider; should_error is not evaluated for it (no counter
\* read, no decision, no draw) and no handler runs.  /health included.
C6_AuthRejects ==
    \A r \in Requests :
        (config.require_auth /\ BadCredential(r) /\ PastAuth(r)) =>
            /\ Answered(r)
            /\ req[r].resp = << [status |-> 401, kind |-> "Unauthorized",
                                 envelope |-> ExpectedEnvelope(req[r].path),
                                 retry_after |-> "none"] >>
            /\ req[r].fault = "unevaluated"
            /\ req[r].seen = 0
            /\ req[r].draws = 0
            /\ req[r].handler = "none"

\* C6 witness: with a forced fault, a threshold and a positive error_rate
\* all configured, /health without a credential and /v1/messages with a
\* wrong one were both answered 401, and the generator was never advanced.
C6_Witness ==
    /\ config.require_auth
    /\ config.force_error = "ServerError"
    /\ config.error_rate > 0
    /\ config.fail_after_requests = 1
    /\ rng = RngWithSeed(42)
    /\ \E a, b \in Requests :
          /\ req[a].path = PathHealth /\ req[a].header = NoHeader
          /\ Answered(a) /\ StatusOf(a) = 401
          /\ req[b].path = PathMessages /\ req[b].header = HdrBearerWrong
          /\ Answered(b) /\ StatusOf(b) = 401
          /\ req[b].resp[1].envelope = "anthropic"

\* The threshold rule matches on the counter should_error meets.
ThresholdMatches ==
    config.fail_after_requests > 0 /\ request_count >= config.fail_after_requests

\* C7: should_error returns the forced kind whenever force_error is set,
\* for every counter value, threshold and error_rate, without a draw;
\* otherwise RateLimit when the threshold rule matches, whatever the
\* error_rate, without a draw; only otherwise does the probabilistic rule
\* decide, which yields None, Unauthorized, RateLimit or ServerError and
\* None without a draw when error_rate is 0.
C7_FaultPriority ==
    \A r \in Requests :
        req[r].fault # "unevaluated" =>
            IF config.force_error # "None"
            THEN req[r].fault = config.force_error /\ req[r].draws = 0
            ELSE IF ThresholdMatches
            THEN req[r].fault = "RateLimit" /\ req[r].draws = 0
            ELSE /\ req[r].fault \in {"None", "Unauthorized", "RateLimit", "ServerError"}
                 /\ req[r].draws = 0 <=> config.error_rate = 0
                 /\ config.error_rate = 0 => req[r].fault = "None"
                 /\ config.error_rate = 100 => req[r].fault # "None"

\* C7 witness: a forced Timeout was returned although the threshold rule
\* matched and error_rate was 100.
C7_Witness ==
    /\ config.force_error = "Timeout"
    /\ ThresholdMatches
    /\ config.error_rate = 100
    /\ req[1].fault = "Timeout"

\* C8: a request for which the Auth or Fault stage produced a fault never
\* reaches a handler, and its whole response is exactly one error response;
\* no request ever has more than one response.
C8_FaultIsTerminal ==
    \A r \in Requests :
        /\ Len(req[r].resp) <= 1
        /\ ((config.require_auth /\ BadCredential(r) /\ PastAuth(r))
              \/ req[r].fault \in ErrorTypes) =>
                /\ Answered(r)
                /\ req[r].handler = "none"
                /\ Len(req[r].resp) = 1
                /\ req[r].resp[1].status \in {401, 429, 500, 504}
                /\ req[r].resp[1].kind \in ErrorTypes

\* C8 witness: in one run a request was answered 200 by a handler and
\* another was faulted by the probabilistic rule (two draws) and never
\* reached a handler.
C8_Witness ==
    \E a, b \in Requests :
        /\ Answered(a) /\ req[a].handler # "none" /\ StatusOf(a) = 200
        /\ Answered(b) /\ req[b].fault \in ErrorTypes /\ req[b].draws = 2
        /\ req[b].handler = "none"

\* C9: with fail_after_requests = N > 0, no forced fault, error_rate = 0
\* and auth not required, when requests are served one at a time the k-th
\* request reaches its handler for every k < N (200 for a well-formed one)
\* and every request from the N-th on gets 429, the N-th being the first.
C9_SequentialThreshold ==
    (ThresholdOnly /\ config.error_rate = 0) =>
        \A k \in Requests :
            Answered(k) =>
                IF k < config.fail_after_requests
                THEN /\ req[k].handler # "none"
                     /\ StatusOf(k) # 429
                     /\ req[k].body = "json" => StatusOf(k) = 200
                ELSE StatusOf(k) = 429 /\ req[k].handler = "none"

\* C9 witness: N = 2, the first request got 200 and the second 429.
C9_Witness ==
    /\ ThresholdOnly /\ config.error_rate = 0
    /\ config.fail_after_requests = 2
    /\ Answered(1) /\ StatusOf(1) = 200
    /\ Answered(2) /\ StatusOf(2) = 429

\* The credential each header of Headers carries, as compared against
\* valid_keys: NoHeader when the request carries none.
CarriedCredential(h) ==
    IF h \in {HdrBearerK1, HdrBareK1, HdrDoubleBearerK1, HdrPaddedK1} THEN Key1
    ELSE IF h = HdrBearerK2 THEN Key2
    ELSE IF h = HdrBearerWrong THEN KeyWrong
    ELSE IF h = HdrBearerOnly THEN <<>>
    ELSE IF h = HdrLowerBearerK1 THEN HdrLowerBearerK1
    ELSE NoHeader

\* C10: with require_auth false every request passes the Auth stage and
\* is_valid_key is true of every key, absent or not; with require_auth true
\* a request passes iff the credential it carries equals an element of
\* valid_keys, so an absent or wrong credential and an empty valid_keys are
\* rejected with 401, and an accepted key yields 200 when no fault applies.
C10_AuthDecision ==
    \A r \in Requests :
        LET cred == CarriedCredential(req[r].header)
            accepted == cred # NoHeader
                        /\ \E i \in 1..Len(config.valid_keys) : config.valid_keys[i] = cred
        IN  /\ ~config.require_auth =>
                  /\ is_valid_key(config, ExtractKey(req[r].header))
                  /\ is_valid_key(config, NoHeader)
            /\ PastAuth(r) =>
                  IF ~config.require_auth \/ accepted
                  THEN /\ ~RejectedByAuth(r)
                       /\ Answered(r) => StatusOf(r) = 200 /\ req[r].handler # "none"
                  ELSE RejectedByAuth(r) /\ StatusOf(r) = 401

\* C10 witness: auth is required and "Bearer k1" was answered 200 by a
\* handler, k1 being the second of two accepted keys' list.
C10_Witness ==
    /\ config.require_auth
    /\ config.valid_keys = <<Key1, Key2>>
    /\ req[1].header = HdrBearerK1
    /\ Answered(1) /\ StatusOf(1) = 200 /\ req[1].handler = "health"

\* C11: when no forced fault applies and the threshold rule does not match,
\* an enabled probabilistic rule (error_rate > 0) makes one draw from the
\* shared generator and compares it against error_rate; on a hit a second
\* draw selects Unauthorized, RateLimit or ServerError (never Timeout) and
\* the generator has advanced by two draws; on a miss should_error returns
\* None and the generator has advanced by exactly one draw.
C11_ProbabilisticFault ==
    [][\A r \in Requests :
          (/\ req[r].pc = "fault" /\ req'[r].pc # "fault"
           /\ config.force_error = "None" /\ ~ThresholdMatches
           /\ config.error_rate > 0)
          => LET g1 == RngStep(rng)
                 g2 == RngStep(g1) IN
             IF RngF32(g1) < config.error_rate
             THEN /\ req'[r].fault \in {"Unauthorized", "RateLimit", "ServerError"}
                  /\ req'[r].fault = (IF RngU8(g2) = 0 THEN "Unauthorized"
                                      ELSE IF RngU8(g2) = 1 THEN "RateLimit"
                                      ELSE "ServerError")
                  /\ req'[r].draws = 2 /\ rng' = g2
             ELSE /\ req'[r].fault = "None"
                  /\ req'[r].draws = 1 /\ rng' = g1]_vars

\* C11 witness: with error_rate 50 and neither a forced fault nor a matching
\* threshold, the first draw hit and the second draw chose RateLimit.
C11_Witness ==
    /\ config.force_error = "None" /\ ~ThresholdMatches
    /\ config.error_rate = 50
    /\ req[1].fault = "RateLimit" /\ req[1].draws = 2

(***************************************************************************)
(* generator.rs: the ContentGenerator every handler constructs for its     *)
(* request.  Its generator is private to the request; it is modelled by    *)
(* the same sixteen-state sequence as the shared one.                      *)
(***************************************************************************)
\* Largest token budget a request asks for.
MaxTokens == 3

\* Sixteen entries of the vocabulary WORDS, one per generator state: its
\* first twelve, its two capitalised ones, its longest and its last.
WORDS ==
    << <<"t", "h", "e">>,
       <<"b", "e">>,
       <<"t", "o">>,
       <<"o", "f">>,
       <<"a", "n", "d">>,
       <<"a">>,
       <<"i", "n">>,
       <<"t", "h", "a", "t">>,
       <<"h", "a", "v", "e">>,
       <<"I">>,
       <<"i", "t">>,
       <<"f", "o", "r">>,
       <<"A", "I">>,
       <<"m", "o", "d", "e", "l">>,
       <<"o", "p", "t", "i", "m", "i", "z", "a", "t", "i", "o", "n">>,
       <<"b", "a", "t", "c", "h">> >>

\* ContentGenerator::new(): tokens_per_chunk.
DefaultTokensPerChunk == 3

\* rng.usize(lo..=hi) read off the generator state.
RngUsize(g, lo, hi) == lo + (g % (hi - lo + 1))

Min(a, b) == IF a < b THEN a ELSE b
Max(a, b) == IF a > b THEN a ELSE b

\* usize::saturating_sub.
saturating_sub(a, b) == IF a >= b THEN a - b ELSE 0

UpperCase ==
    <<"A", "B", "C", "D", "E", "F", "G", "H", "I", "J", "K", "L", "M",
      "N", "O", "P", "Q", "R", "S", "T", "U", "V", "W", "X", "Y", "Z">>
LowerCase ==
    <<"a", "b", "c", "d", "e", "f", "g", "h", "i", "j", "k", "l", "m",
      "n", "o", "p", "q", "r", "s", "t", "u", "v", "w", "x", "y", "z">>
Digits == <<"0", "1", "2", "3", "4", "5", "6", "7", "8", "9">>

\* u8::make_ascii_uppercase on one character.
make_ascii_uppercase(c) ==
    IF \E i \in 1..26 : LowerCase[i] = c
    THEN UpperCase[CHOOSE i \in 1..26 : LowerCase[i] = c]
    ELSE c

\* Mutant: the draw is made on a copy of the rng (self.rng.clone()), which
\* leaves the generator where it was.
word_on_clone(g) ==
    LET g1 == RngStep(g) IN
    [out |-> WORDS[RngUsize(g1, 1, Len(WORDS))], rng |-> g]

\* ContentGenerator::word: one draw, the word at the drawn index.
word(g) ==
    LET g1 == RngStep(g) IN
    [out |-> WORDS[RngUsize(g1, 1, Len(WORDS))], rng |-> g1]

\* ContentGenerator::words: count draws, joined by single spaces.
RECURSIVE words(_, _)
words(g, count) ==
    IF count = 0
    THEN [out |-> <<>>, rng |-> g]
    ELSE LET w == word(g)
             rest == words(w.rng, count - 1) IN
         [out |-> IF count = 1 THEN w.out ELSE w.out \o <<" ">> \o rest.out,
          rng |-> rest.rng]

\* ContentGenerator::sentence: 5..15 words, first letter upper-cased, a
\* period pushed.
sentence(g) ==
    LET g1 == RngStep(g)
        count == RngUsize(g1, 5, 14)
        s == words(g1, count) IN
    [out |-> <<make_ascii_uppercase(Head(s.out))>> \o Tail(s.out) \o <<".">>,
     rng |-> s.rng]

RECURSIVE sentences(_, _)
sentences(g, count) ==
    IF count = 0
    THEN [out |-> <<>>, rng |-> g]
    ELSE LET s == sentence(g)
             rest == sentences(s.rng, count - 1) IN
         [out |-> IF count = 1 THEN s.out ELSE s.out \o <<" ">> \o rest.out,
          rng |-> rest.rng]

\* ContentGenerator::paragraph: 2..5 sentences joined by single spaces.
paragraph(g) ==
    LET g1 == RngStep(g) IN sentences(g1, RngUsize(g1, 2, 4))

(***************************************************************************)
(* The identifier generators.  rng.u64(..) is one draw; the value is       *)
(* written in lower-case hexadecimal, zero-padded to the given width.      *)
(* Uuid::new_v4() takes its bits from the operating system, whatever the   *)
(* generator's rng holds.  A 64-bit or 128-bit value is held as its 16-bit *)
(* limbs, most significant first.                                          *)
(***************************************************************************)
\* The value of rng.u64(..): between one and four significant limbs.
RngU64(g) == [i \in 1..4 |-> IF i <= g % 4 THEN 0 ELSE (g * 4369 + i * 257) % 65536]

HexDigits == <<"0", "1", "2", "3", "4", "5", "6", "7",
               "8", "9", "a", "b", "c", "d", "e", "f">>

\* The four hexadecimal digits of one limb.
limb_hex(n) ==
    << HexDigits[(n \div 4096) + 1], HexDigits[((n \div 256) % 16) + 1],
       HexDigits[((n \div 16) % 16) + 1], HexDigits[(n % 16) + 1] >>

RECURSIVE limbs_hex(_)
limbs_hex(v) == IF v = <<>> THEN <<>> ELSE limb_hex(Head(v)) \o limbs_hex(Tail(v))

RECURSIVE trim_leading_zeros(_)
trim_leading_zeros(h) ==
    IF Len(h) > 1 /\ Head(h) = "0" THEN trim_leading_zeros(Tail(h)) ELSE h

\* {:x}: the digits without leading zeros.
to_hex(v) == trim_leading_zeros(limbs_hex(v))

\* {:0width$x}: padded with zeros up to the width, never cut.
format_hex(v, width) ==
    LET h == to_hex(v) IN
    [i \in 1..(Max(width, Len(h)) - Len(h)) |-> "0"] \o h

\* Display of a Uuid: 32 hexadecimal digits in groups of 8-4-4-4-12.
hyphenated(u) ==
    LET h == format_hex(u, 32) IN
    SubSeq(h, 1, 8) \o <<"-">> \o SubSeq(h, 9, 12) \o <<"-">> \o SubSeq(h, 13, 16)
    \o <<"-">> \o SubSeq(h, 17, 20) \o <<"-">> \o SubSeq(h, 21, 32)

\* The values Uuid::new_v4() may return: random bits around the version
\* nibble 4 and the variant bits 10.
Uuids ==
    {[i \in 1..8 |-> IF i = 4 THEN 16384 + k
                     ELSE IF i = 5 THEN 32768 + k ELSE k * 4369] : k \in {1, 2}}

\* ContentGenerator::tool_call_id
tool_call_id(g) ==
    LET g1 == RngStep(g) IN [out |-> format_hex(RngU64(g1), 11), rng |-> g1]

\* ContentGenerator::fingerprint
fingerprint(g) ==
    LET g1 == RngStep(g) IN
    [out |-> <<"f", "p", "_">> \o format_hex(RngU64(g1), 16), rng |-> g1]

\* ContentGenerator::completion_id: the generator's rng is not read.
completion_id(g, uuid) ==
    [out |-> <<"c", "h", "a", "t", "c", "m", "p", "l", "-">> \o hyphenated(uuid),
     rng |-> g]

\* format!("{:02x}", c as u8) of a hexadecimal digit: '0'..'9' are the bytes
\* 0x30..0x39 and 'a'..'f' the bytes 0x61..0x66.
byte_hex(c) ==
    LET i == CHOOSE k \in 1..16 : HexDigits[k] = c IN
    IF i <= 10 THEN <<"3", HexDigits[i]>> ELSE <<"6", HexDigits[i - 9]>>

\* Below this an f32 holds every integer (24-bit significand).
F32Integers == 2^24

\* The unit in the last place of the f32 nearest to n: 1 below 2^24, then
\* doubling with every further binary digit.
RECURSIVE ulp_f32(_)
ulp_f32(n) == IF n < F32Integers THEN 1 ELSE 2 * ulp_f32(n \div 2)

\* `n as f32` for an unsigned integer: the nearest f32, ties to the even
\* significand.
as_f32(n) ==
    LET u == ulp_f32(n)
        q == n \div u
        r == n % u IN
    IF 2 * r < u THEN q * u
    ELSE IF 2 * r > u THEN (q + 1) * u
    ELSE IF q % 2 = 0 THEN q * u ELSE (q + 1) * u

\* ((len as f32) / 4.0).ceil() as u32: the division by four is exact in
\* f32, and so is the ceiling of its value.
estimate_tokens_of_len(len) == (as_f32(len) + 3) \div 4

\* ContentGenerator::estimate_tokens
estimate_tokens(text) == estimate_tokens_of_len(str_len(text))

\* str::split_whitespace: the maximal runs of non-whitespace characters.
RECURSIVE split_whitespace(_)
split_whitespace(s) ==
    LET t == TrimStart(s) IN
    IF t = <<>>
    THEN <<>>
    ELSE LET n == CHOOSE i \in 1..(Len(t) + 1) :
                      /\ i = Len(t) + 1 \/ IsWhitespace(t[i])
                      /\ \A j \in 1..(i - 1) : ~IsWhitespace(t[j]) IN
         <<SubSeq(t, 1, n - 1)>> \o split_whitespace(SubSeq(t, n, Len(t)))

\* The generator of one request: its private rng, its chunking parameter,
\* and the locals of a stream_chunks call in progress.
NewGenerator(g) ==
    [rng |-> g, tokens_per_chunk |-> DefaultTokensPerChunk,
     total_tokens |-> 0, remaining |-> 0, chunks |-> <<>>, pc |-> "new"]

\* ContentGenerator::new: the rng is Rng::new(), seeded from the environment.
new == {NewGenerator(g) : g \in RngStates}

Generators == DOMAIN gen

\* frame of the generator actions
requestVars == <<config, request_count, rng, req>>

\* A loop body that does not cap the drawn size by the remaining budget.
stream_chunks_loop_uncapped(s) ==
    /\ gen[s].pc = "loop" /\ gen[s].remaining > 0
    /\ LET g1 == RngStep(gen[s].rng)
           chunk_size == RngUsize(g1, 1, Max(gen[s].tokens_per_chunk, 1))
           w == words(g1, chunk_size) IN
         gen' = [gen EXCEPT ![s].rng = w.rng,
                            ![s].chunks = Append(@, w.out),
                            ![s].remaining = saturating_sub(@, chunk_size)]
    /\ UNCHANGED <<requestVars, stream>>

\* stream_chunks, one iteration of `while remaining > 0`.
stream_chunks_loop(s) ==
    /\ gen[s].pc = "loop" /\ gen[s].remaining > 0
    /\ LET g1 == RngStep(gen[s].rng)
           chunk_size == Min(gen[s].remaining,
                             RngUsize(g1, 1, Max(gen[s].tokens_per_chunk, 1)))
           w == words(g1, chunk_size) IN
         gen' = [gen EXCEPT ![s].rng = w.rng,
                            ![s].chunks = Append(@, w.out),
                            ![s].remaining = saturating_sub(@, chunk_size)]
    /\ UNCHANGED <<requestVars, stream>>

\* A return that pushes the period onto the first chunk instead of the last.
stream_chunks_return_first(s) ==
    /\ gen[s].pc = "loop" /\ gen[s].remaining = 0
    /\ LET n == Len(gen[s].chunks) IN
         gen' = [gen EXCEPT
                   ![s].chunks = IF n = 0 THEN @
                                 ELSE [@ EXCEPT ![1] = Append(@, ".")],
                   ![s].pc = "returned"]
    /\ UNCHANGED <<requestVars, stream>>

\* stream_chunks, after the loop: a period is pushed onto the last chunk
\* and the chunks are returned.
stream_chunks_return(s) ==
    /\ gen[s].pc = "loop" /\ gen[s].remaining = 0
    /\ LET n == Len(gen[s].chunks) IN
         gen' = [gen EXCEPT
                   ![s].chunks = IF n = 0 THEN @
                                 ELSE [@ EXCEPT ![n] = Append(@, ".")],
                   ![s].pc = "returned"]
    /\ UNCHANGED <<requestVars, stream>>

(***************************************************************************)
(* stream_chunks on its own: one generator inside a stream_chunks call,    *)
(* for every budget, chunking parameter and generator state.  The loop has *)
(* no suspension point, so it runs on once entered (weak fairness).        *)
(***************************************************************************)
TokensPerChunkChoices == {0, 1, DefaultTokensPerChunk}

InitChunks ==
    /\ config = DefaultConfig
    /\ request_count = 0
    /\ rng = RngWithSeed(42)
    /\ req = <<>>
    /\ stream = <<>>
    /\ \E g \in RngStates, t \in TokensPerChunkChoices, n \in 0..MaxTokens :
         gen = << [NewGenerator(g) EXCEPT !.tokens_per_chunk = t,
                                          !.total_tokens = n,
                                          !.remaining = n, !.pc = "loop"] >>

NextChunks ==
    \/ \E s \in Generators : stream_chunks_loop(s)
    \/ \E s \in Generators : stream_chunks_return(s)

SpecChunks == InitChunks /\ [][NextChunks]_vars /\ WF_vars(NextChunks)

\* Number of words of one chunk.
WordCount(chunk) == Len(split_whitespace(chunk))

RECURSIVE SumWordCounts(_)
SumWordCounts(chunks) ==
    IF chunks = <<>> THEN 0 ELSE WordCount(Head(chunks)) + SumWordCounts(Tail(chunks))

\* C20: stream_chunks(total_tokens) terminates for every budget; every
\* chunk holds at least one and at most max(tokens_per_chunk, 1) words; the
\* words handed out so far plus the remaining budget always equal
\* total_tokens, so the cumulative size never exceeds the budget and the
\* returned chunks sum to exactly total_tokens.
C20_StreamChunksPartition ==
    /\ [](\A s \in Generators :
            /\ \A i \in 1..Len(gen[s].chunks) :
                 /\ WordCount(gen[s].chunks[i]) >= 1
                 /\ WordCount(gen[s].chunks[i]) <= Max(gen[s].tokens_per_chunk, 1)
            /\ SumWordCounts(gen[s].chunks) + gen[s].remaining = gen[s].total_tokens)
    /\ <>(\A s \in Generators :
            /\ gen[s].pc = "returned"
            /\ SumWordCounts(gen[s].chunks) = gen[s].total_tokens)

\* C20 witness: a call with the default chunking and a budget of at least
\* three tokens returned more than one chunk.
C20_Witness ==
    /\ gen[1].pc = "returned"
    /\ gen[1].tokens_per_chunk = DefaultTokensPerChunk
    /\ gen[1].total_tokens >= 3
    /\ Len(gen[1].chunks) >= 2

(***************************************************************************)
(* The provider handlers: what they read of a request.  A request carries  *)
(* its last turn as a sequence of parts (a plain string is one text part;  *)
(* a block or part without text is NoText; a thinking block of the         *)
(* Messages API is its text behind the ThinkingTag; no turn at all is the  *)
(* empty sequence) and its tools as NoTools (field absent) or the list of  *)
(* the declared function names, possibly empty.                            *)
(***************************************************************************)
NoText == <<"<no text>">>
ThinkingTag == "<thinking>"

\* ContentBlock::Thinking { thinking, .. } and its thinking text.
ThinkingBlock(text) == <<ThinkingTag>> \o text
IsThinking(part) == part # <<>> /\ part[1] = ThinkingTag
ThinkingOf(part) == Tail(part)

\* The part carries text: ContentBlock::Text, or a part whose text is Some.
IsText(part) == part # NoText /\ ~IsThinking(part)
NoTools == <<"<no tools>">>
Unknown == <<"u", "n", "k", "n", "o", "w", "n">>

\* The trigger words of should_call_tool.
Triggers ==
    { <<"w", "e", "a", "t", "h", "e", "r">>,
      <<"s", "e", "a", "r", "c", "h">>,
      <<"c", "a", "l", "c", "u", "l", "a", "t", "e">>,
      <<"w", "h", "a", "t", " ", "i", "s">>,
      <<"f", "i", "n", "d">> }

\* char::to_lowercase on the characters of the model.
to_lowercase_char(c) ==
    IF \E i \in 1..26 : UpperCase[i] = c
    THEN LowerCase[CHOOSE i \in 1..26 : UpperCase[i] = c]
    ELSE c

\* str::to_lowercase
to_lowercase(s) == [i \in 1..Len(s) |-> to_lowercase_char(s[i])]

\* char::is_alphanumeric on the characters of the model.
is_alphanumeric(c) ==
    \/ \E i \in 1..26 : UpperCase[i] = c \/ LowerCase[i] = c
    \/ \E i \in 1..10 : Digits[i] = c

\* str::trim_matches(|ch| !ch.is_alphanumeric())
RECURSIVE trim_matches_non_alphanumeric(_)
trim_matches_non_alphanumeric(s) ==
    IF s = <<>> THEN s
    ELSE IF ~is_alphanumeric(Head(s)) THEN trim_matches_non_alphanumeric(Tail(s))
    ELSE IF ~is_alphanumeric(s[Len(s)])
         THEN trim_matches_non_alphanumeric(SubSeq(s, 1, Len(s) - 1))
    ELSE s

\* The first part of the turn that carries text (find_map), if any.
FirstText(turn) ==
    IF \E i \in 1..Len(turn) : IsText(turn[i])
    THEN turn[CHOOSE i \in 1..Len(turn) :
                  IsText(turn[i]) /\ \A j \in 1..(i - 1) : ~IsText(turn[j])]
    ELSE NoText

\* The text of the first part of the turn (parts.first()), if any.
HeadText(turn) == IF turn = <<>> \/ ~IsText(turn[1]) THEN NoText ELSE turn[1]

\* The text should_call_tool inspects: the last message's content
\* (Cerebras), its text or first text block (Claude), the first part with
\* text of the last content (Gemini), extract_input_text (OpenAI).
TurnText(provider, turn) ==
    IF provider = "Cerebras" THEN HeadText(turn) ELSE FirstText(turn)

\* lower.contains("weather") || ... || lower.contains("find")
MentionsTrigger(text) == \E t \in Triggers : Contains(to_lowercase(text), t)

\* should_call_tool of each provider.  Gemini's checks the tools field
\* itself; the others look at the text only.
should_call_tool(provider, r) ==
    IF provider = "Gemini" /\ r.tools = NoTools
    THEN FALSE
    ELSE LET text == TurnText(provider, r.turn) IN
         text # NoText /\ MentionsTrigger(text)

\* wants_tools as the entry point of each provider computes it:
\* req.tools.is_some() && should_call_tool(&req), and should_call_tool(&req)
\* alone for Gemini.
wants_tools(provider, r) ==
    IF provider = "Gemini"
    THEN should_call_tool(provider, r)
    ELSE r.tools # NoTools /\ should_call_tool(provider, r)

\* wants_thinking: req.thinking.is_some(), a field of the Messages request only.
wants_thinking(provider, r) == provider = "Claude" /\ r.thinking

\* The name of the first declared tool, or the provider's default.
first_tool_name(provider, r) ==
    IF r.tools # NoTools /\ r.tools # <<>>
    THEN r.tools[1]
    ELSE IF provider = "Cerebras" THEN <<>>
    ELSE IF provider = "Gemini" THEN <<"u", "n", "k", "n", "o", "w", "n", "_", "f", "u", "n", "c", "t", "i", "o", "n">>
    ELSE Unknown

\* The last whitespace-separated word longer than two bytes, or "unknown".
LastLongWord(text) ==
    LET ws == SelectSeq(split_whitespace(text), LAMBDA w : str_len(w) > 2) IN
    IF ws = <<>> THEN Unknown ELSE ws[Len(ws)]

\* extract_argument of each provider: Cerebras and Claude read the text
\* should_call_tool inspected, Gemini the first part of the last content;
\* the Responses handler inlines the same search without trim_matches.
extract_argument(provider, r) ==
    LET text == IF provider = "Gemini" THEN HeadText(r.turn)
                ELSE TurnText(provider, r.turn) IN
    IF text = NoText
    THEN Unknown
    ELSE IF provider = "OpenAI"
    THEN LastLongWord(text)
    ELSE trim_matches_non_alphanumeric(LastLongWord(text))

RECURSIVE SumTokens(_)
SumTokens(texts) ==
    IF texts = <<>> THEN 0 ELSE estimate_tokens(Head(texts)) + SumTokens(Tail(texts))

\* Input tokens of one turn: estimate_tokens of the message content
\* (Cerebras) or of each part that carries text; a Claude block that is
\* neither text nor thinking counts 10.
turn_tokens(provider, turn) ==
    IF provider = "Cerebras"
    THEN (IF HeadText(turn) = NoText THEN 0 ELSE estimate_tokens(HeadText(turn)))
    ELSE SumTokens(SelectSeq(turn, IsText))
         + (IF provider = "Claude"
            THEN SumTokens([i \in 1..Len(SelectSeq(turn, IsThinking)) |->
                               ThinkingOf(SelectSeq(turn, IsThinking)[i])])
                 + 10 * Len(SelectSeq(turn, LAMBDA p : p = NoText))
            ELSE 0)

RECURSIVE SumTurnTokens(_, _)
SumTurnTokens(provider, turns) ==
    IF turns = <<>> THEN 0
    ELSE turn_tokens(provider, Head(turns)) + SumTurnTokens(provider, Tail(turns))

\* Input tokens of the request: every turn is counted; the system text is
\* counted by the Messages handler only (system_instruction and
\* instructions are not read by the Gemini and Responses handlers).
count_input_tokens(provider, r) ==
    (IF provider = "Claude" /\ r.system # NoText
     THEN estimate_tokens(r.system) ELSE 0)
    + SumTurnTokens(provider, r.history \o <<r.turn>>)

\* max_tokens (max_output_tokens) of a request that does not carry the field.
NoMaxTokens == -1

\* Option::unwrap_or on the token budget of the request.
unwrap_or(max_tokens, default) ==
    IF max_tokens = NoMaxTokens THEN default ELSE max_tokens

\* Token usage of a response or fragment; NoUsage when it carries none.
NoUsage == [input |-> -1, output |-> -1, total |-> -1]
\* A tally whose total repeats the output count.
Usage_total_is_output(input, output) == [input |-> input, output |-> output, total |-> output]
Usage(input, output) == [input |-> input, output |-> output, total |-> input + output]

\* The Messages API reports input and output tokens without a total.
ClaudeUsage(input, output) == [input |-> input, output |-> output, total |-> -1]

\* One item of a response body.
Item(kind) == [kind |-> kind, text |-> <<>>, name |-> <<>>, argument |-> <<>>]
TextItem(text) == [Item("text") EXCEPT !.text = text]
ThinkingItem(text) == [Item("thinking") EXCEPT !.text = text]
ToolCallItem(provider, r) ==
    [Item("tool_call") EXCEPT !.name = first_tool_name(provider, r),
                              !.argument = extract_argument(provider, r)]

Body(items, finish, usage) == [items |-> items, finish |-> finish, usage |-> usage]
NoBody == Body(<<>>, "none", NoUsage)

\* claude.rs generate_signature: "EtUB", forty times the byte of the first
\* character of a fresh tool_call_id as two hexadecimal digits, and "==".
\* The loop is unfolded by halves, which keeps its evaluation shallow.
RECURSIVE signature_bytes(_, _)
signature_bytes(g, n) ==
    IF n = 0 THEN [out |-> <<>>, rng |-> g]
    ELSE IF n = 1
    THEN LET id == tool_call_id(g) IN [out |-> byte_hex(id.out[1]), rng |-> id.rng]
    ELSE LET first == signature_bytes(g, n \div 2)
             rest == signature_bytes(first.rng, n - n \div 2) IN
         [out |-> first.out \o rest.out, rng |-> rest.rng]

generate_signature(g) ==
    LET bytes == signature_bytes(g, 40) IN
    [out |-> <<"E", "t", "U", "B">> \o bytes.out \o <<"=", "=">>, rng |-> bytes.rng]

\* cerebras.rs non_stream_response: the fingerprint is drawn first; the
\* paragraph is generated, and the completion tokens taken from it, on both
\* paths; the tool path draws the tool_call_id after it.
cerebras_non_stream_response(r, tools, g) ==
    LET fp == fingerprint(g)
        content == paragraph(fp.rng)
        max_tokens == unwrap_or(r.max_tokens, 100)
        completion_tokens == Min(estimate_tokens(content.out), max_tokens)
        prompt_tokens == count_input_tokens("Cerebras", r)
        id == tool_call_id(content.rng) IN
    [body |-> Body(IF tools THEN <<ToolCallItem("Cerebras", r)>>
                   ELSE <<TextItem(content.out)>>,
                   IF tools THEN "tool_calls" ELSE "stop",
                   Usage(prompt_tokens, completion_tokens)),
     rng |-> IF tools THEN id.rng ELSE content.rng]

\* claude.rs non_stream_response: generate_message_id, then the thinking
\* paragraph and its signature, then generate_tool_use_id or the paragraph.
claude_non_stream_response(r, tools, thinking, g) ==
    LET id == tool_call_id(g)
        thinking_text == IF thinking THEN paragraph(id.rng)
                         ELSE [out |-> <<>>, rng |-> id.rng]
        signature == IF thinking THEN generate_signature(thinking_text.rng)
                     ELSE [out |-> <<>>, rng |-> thinking_text.rng]
        thought == IF thinking THEN <<ThinkingItem(thinking_text.out)>> ELSE <<>>
        thought_tokens == IF thinking THEN estimate_tokens(thinking_text.out) ELSE 0
        tool_use_id == tool_call_id(signature.rng)
        text == paragraph(signature.rng)
        input_tokens == count_input_tokens("Claude", r) IN
    IF tools
    THEN [body |-> Body(thought \o <<ToolCallItem("Claude", r)>>, "tool_use",
                        ClaudeUsage(input_tokens, thought_tokens + 50)),
          rng |-> tool_use_id.rng]
    ELSE [body |-> Body(thought \o <<TextItem(text.out)>>, "end_turn",
                        ClaudeUsage(input_tokens,
                                    thought_tokens + estimate_tokens(text.out))),
          rng |-> text.rng]

\* gemini.rs non_stream_response: finish_reason is "STOP" on both paths.
gemini_non_stream_response(r, tools, g) ==
    LET max_tokens == unwrap_or(r.max_tokens, 100)
        content == paragraph(g)
        prompt_tokens == count_input_tokens("Gemini", r) IN
    IF tools
    THEN [body |-> Body(<<ToolCallItem("Gemini", r)>>, "STOP",
                        Usage(prompt_tokens, 12)),
          rng |-> g]
    ELSE [body |-> Body(<<TextItem(content.out)>>, "STOP",
                        Usage(prompt_tokens,
                              Min(estimate_tokens(content.out), max_tokens))),
          rng |-> content.rng]

\* openai.rs non_stream_response: the Responses body carries a status,
\* "completed" on both paths, and no other finish reason.  The response id
\* is drawn first; the tool path draws the item id and the call id, the
\* text path the paragraph and then the message id.
openai_non_stream_response(r, tools, g) ==
    LET id == tool_call_id(g)
        fc_id == tool_call_id(id.rng)
        call_id == tool_call_id(fc_id.rng)
        content == paragraph(id.rng)
        message_id == tool_call_id(content.rng)
        input_tokens == count_input_tokens("OpenAI", r) IN
    IF tools
    THEN [body |-> Body(<<ToolCallItem("OpenAI", r)>>, "completed",
                        Usage(input_tokens, 15)),
          rng |-> call_id.rng]
    ELSE [body |-> Body(<<TextItem(content.out)>>, "completed",
                        Usage(input_tokens, estimate_tokens(content.out))),
          rng |-> message_id.rng]

(***************************************************************************)
(* Streaming: the fragments a handler constructs.  A fragment records the  *)
(* event or chunk type, the kind of its payload, and the payload fields    *)
(* the properties read; identifiers, model names and timestamps are left   *)
(* out.                                                                    *)
(***************************************************************************)
Frag(type, kind) ==
    [type |-> type, kind |-> kind, text |-> <<>>, name |-> <<>>,
     argument |-> <<>>, finish |-> "none", usage |-> NoUsage,
     index |-> 0, seq |-> 0]

\* A prefix that puts the space before the first chunk as well.
Prefixed_every(chunks) ==
    [i \in 1..Len(chunks) |-> <<" ">> \o chunks[i]]

\* format!("{prefix}{chunk}"): a space before every chunk but the first.
Prefixed(chunks) ==
    [i \in 1..Len(chunks) |-> IF i > 1 THEN <<" ">> \o chunks[i] ELSE chunks[i]]

\* The text payloads of the fragments of the given kind, in order.
DeltaTexts(frags, kind) ==
    LET sel == SelectSeq(frags, LAMBDA f : f.kind = kind) IN
    [i \in 1..Len(sel) |-> sel[i].text]

\* [&str]::join(" ")
RECURSIVE join(_)
join(ws) ==
    IF ws = <<>> THEN <<>>
    ELSE IF Len(ws) = 1 THEN ws[1]
    ELSE ws[1] \o <<" ">> \o join(Tail(ws))

\* String::push_str of each text in turn.
RECURSIVE concat(_)
concat(texts) ==
    IF texts = <<>> THEN <<>> ELSE Head(texts) \o concat(Tail(texts))

\* slice::chunks(3): consecutive groups of three, the last one shorter.
RECURSIVE slice_chunks(_)
slice_chunks(ws) ==
    IF ws = <<>> THEN <<>>
    ELSE IF Len(ws) <= 3 THEN <<ws>>
    ELSE <<SubSeq(ws, 1, 3)>> \o slice_chunks(SubSeq(ws, 4, Len(ws)))

\* cerebras.rs generate_content_chunks: the role chunk, then one content
\* chunk per element of stream_chunks(max_tokens).
generate_content_chunks(content_parts) ==
    LET texts == Prefixed(content_parts) IN
    <<Frag("chat.completion.chunk", "role")>>
    \o [i \in 1..Len(texts) |->
          [Frag("chat.completion.chunk", "content") EXCEPT !.text = texts[i]]]

\* cerebras.rs generate_tool_chunks: the role chunk and one tool-call chunk.
generate_tool_chunks(r) ==
    << Frag("chat.completion.chunk", "role"),
       [Frag("chat.completion.chunk", "tool_calls") EXCEPT
          !.name = first_tool_name("Cerebras", r),
          !.argument = extract_argument("Cerebras", r)] >>

\* A chat-completions stream whose [DONE] line precedes the final chunk.
cerebras_stream_response_done_early(r, tools, content_parts) ==
    LET chunks == IF tools THEN generate_tool_chunks(r)
                  ELSE generate_content_chunks(content_parts)
        final_chunk ==
            [Frag("chat.completion.chunk", "final") EXCEPT
               !.finish = IF tools THEN "tool_calls" ELSE "stop"] IN
    [paced |-> chunks \o <<Frag("[DONE]", "terminator"), final_chunk>>,
     unpaced |-> <<>>]

\* Mutant: the final chunk carries the usage whether or not it was asked for.
cerebras_stream_response_usage_always(r, tools, content_parts) ==
    LET chunks == IF tools THEN generate_tool_chunks(r)
                  ELSE generate_content_chunks(content_parts)
        prompt_tokens == count_input_tokens("Cerebras", r)
        completion_tokens == Max(SumTokens(DeltaTexts(chunks, "content")), 1)
        final_chunk ==
            [Frag("chat.completion.chunk", "final") EXCEPT
               !.finish = IF tools THEN "tool_calls" ELSE "stop",
               !.usage = Usage(prompt_tokens, completion_tokens)] IN
    [paced |-> chunks \o <<final_chunk>>,
     unpaced |-> <<Frag("[DONE]", "terminator")>>]

\* cerebras.rs stream_response: the chunks and the final chunk go through
\* the pacing stage; the [DONE] line is chained after it.
cerebras_stream_response(r, tools, content_parts) ==
    LET chunks == IF tools THEN generate_tool_chunks(r)
                  ELSE generate_content_chunks(content_parts)
        prompt_tokens == count_input_tokens("Cerebras", r)
        completion_tokens == Max(SumTokens(DeltaTexts(chunks, "content")), 1)
        final_chunk ==
            [Frag("chat.completion.chunk", "final") EXCEPT
               !.finish = IF tools THEN "tool_calls" ELSE "stop",
               !.usage = IF r.include_usage
                         THEN Usage(prompt_tokens, completion_tokens)
                         ELSE NoUsage] IN
    [paced |-> chunks \o <<final_chunk>>,
     unpaced |-> <<Frag("[DONE]", "terminator")>>]

\* claude.rs stream_response, the thinking block: the paragraph is counted
\* whole; its words are streamed in groups of three, each followed by a
\* space; then the signature delta and the block stop.
claude_thinking_events(thinking_text, index) ==
    LET groups == slice_chunks(split_whitespace(thinking_text)) IN
    <<[Frag("content_block_start", "thinking") EXCEPT !.index = index]>>
    \o [i \in 1..Len(groups) |->
          [Frag("content_block_delta", "thinking_delta") EXCEPT
             !.index = index, !.text = join(groups[i]) \o <<" ">>]]
    \o <<[Frag("content_block_delta", "signature_delta") EXCEPT !.index = index],
         [Frag("content_block_stop", "thinking") EXCEPT !.index = index]>>

\* claude.rs stream_response, the tool_use block.
claude_tool_events(r, index) ==
    << [Frag("content_block_start", "tool_use") EXCEPT
          !.index = index, !.name = first_tool_name("Claude", r)],
       [Frag("content_block_delta", "input_json_delta") EXCEPT
          !.index = index, !.argument = extract_argument("Claude", r)],
       [Frag("content_block_stop", "tool_use") EXCEPT !.index = index] >>

\* claude.rs stream_response, the text block: one text_delta per chunk.
claude_text_events(chunks, index) ==
    LET texts == Prefixed(chunks) IN
    <<[Frag("content_block_start", "text") EXCEPT !.index = index]>>
    \o [i \in 1..Len(texts) |->
          [Frag("content_block_delta", "text_delta") EXCEPT
             !.index = index, !.text = texts[i]]]
    \o <<[Frag("content_block_stop", "text") EXCEPT !.index = index]>>

\* Mutant: content_index is not advanced after the thinking block.
claude_stream_response_index_reused(r, tools, thinking, thinking_text, chunks) ==
    LET input_tokens == count_input_tokens("Claude", r)
        thought == IF thinking THEN claude_thinking_events(thinking_text, 0) ELSE <<>>
        thought_tokens == IF thinking THEN estimate_tokens(thinking_text) ELSE 0
        content == IF tools THEN claude_tool_events(r, 0)
                   ELSE claude_text_events(chunks, 0)
        output_tokens ==
            thought_tokens + (IF tools THEN 50 ELSE SumTokens(Prefixed(chunks))) IN
    [paced |->
        <<[Frag("message_start", "message") EXCEPT
             !.usage = ClaudeUsage(input_tokens, 1)]>>
        \o thought \o content
        \o <<[Frag("message_delta", "message") EXCEPT
                !.finish = IF tools THEN "tool_use" ELSE "end_turn",
                !.usage = ClaudeUsage(input_tokens, output_tokens)],
             Frag("message_stop", "message")>>,
     unpaced |-> <<>>]

\* claude.rs stream_response: every event goes through the pacing stage.
claude_stream_response(r, tools, thinking, thinking_text, chunks) ==
    LET input_tokens == count_input_tokens("Claude", r)
        thought == IF thinking THEN claude_thinking_events(thinking_text, 0) ELSE <<>>
        thought_tokens == IF thinking THEN estimate_tokens(thinking_text) ELSE 0
        content_index == IF thinking THEN 1 ELSE 0
        content == IF tools THEN claude_tool_events(r, content_index)
                   ELSE claude_text_events(chunks, content_index)
        output_tokens ==
            thought_tokens + (IF tools THEN 50 ELSE SumTokens(Prefixed(chunks))) IN
    [paced |->
        <<[Frag("message_start", "message") EXCEPT
             !.usage = ClaudeUsage(input_tokens, 1)]>>
        \o thought \o content
        \o <<[Frag("message_delta", "message") EXCEPT
                !.finish = IF tools THEN "tool_use" ELSE "end_turn",
                !.usage = ClaudeUsage(input_tokens, output_tokens)],
             Frag("message_stop", "message")>>,
     unpaced |-> <<>>]

\* gemini.rs stream_response: on the tool path one functionCall chunk, on
\* the text path one chunk per part with the running token count; then the
\* final chunk with finishReason STOP.
gemini_stream_response(r, tools, content_parts) ==
    LET prompt_tokens == count_input_tokens("Gemini", r)
        texts == Prefixed(content_parts)
        total_tokens == SumTokens(texts) IN
    [paced |->
        IF tools
        THEN << [Frag("chunk", "functionCall") EXCEPT
                   !.name = first_tool_name("Gemini", r),
                   !.argument = extract_argument("Gemini", r),
                   !.usage = Usage(prompt_tokens, 12)],
                [Frag("chunk", "final") EXCEPT
                   !.finish = "STOP", !.usage = Usage(prompt_tokens, 12)] >>
        ELSE [i \in 1..Len(texts) |->
                [Frag("chunk", "text") EXCEPT
                   !.text = texts[i],
                   !.usage = Usage(prompt_tokens, SumTokens(SubSeq(texts, 1, i)))]]
             \o <<[Frag("chunk", "final") EXCEPT
                     !.finish = "STOP",
                     !.usage = Usage(prompt_tokens, total_tokens)]>>,
     unpaced |-> <<>>]

\* openai.rs stream_response, the function_call events.
openai_tool_events(r) ==
    LET tool_name == first_tool_name("OpenAI", r)
        args == extract_argument("OpenAI", r) IN
    << [Frag("response.output_item.added", "function_call") EXCEPT
          !.name = tool_name],
       [Frag("response.function_call_arguments.delta", "function_call") EXCEPT
          !.argument = args],
       [Frag("response.function_call_arguments.done", "function_call") EXCEPT
          !.argument = args],
       [Frag("response.output_item.done", "function_call") EXCEPT
          !.name = tool_name, !.argument = args] >>

\* Mutant: the full text is the chunks joined without the separating spaces.
openai_text_events_unspaced(content_parts) ==
    LET deltas == Prefixed(content_parts)
        full_text == concat(content_parts) IN
    << Frag("response.output_item.added", "message"),
       Frag("response.content_part.added", "output_text") >>
    \o [i \in 1..Len(deltas) |->
          [Frag("response.output_text.delta", "output_text_delta") EXCEPT
             !.text = deltas[i]]]
    \o << [Frag("response.output_text.done", "output_text") EXCEPT
             !.text = full_text],
          [Frag("response.content_part.done", "output_text") EXCEPT
             !.text = full_text],
          [Frag("response.output_item.done", "message") EXCEPT
             !.text = full_text] >>

\* openai.rs stream_response, the message events: one output_text.delta
\* per chunk, then the full text three times.
openai_text_events(content_parts) ==
    LET deltas == Prefixed(content_parts)
        full_text == concat(deltas) IN
    << Frag("response.output_item.added", "message"),
       Frag("response.content_part.added", "output_text") >>
    \o [i \in 1..Len(deltas) |->
          [Frag("response.output_text.delta", "output_text_delta") EXCEPT
             !.text = deltas[i]]]
    \o << [Frag("response.output_text.done", "output_text") EXCEPT
             !.text = full_text],
          [Frag("response.content_part.done", "output_text") EXCEPT
             !.text = full_text],
          [Frag("response.output_item.done", "message") EXCEPT
             !.text = full_text] >>

\* Mutant: seq is not advanced after the last event of the output item, so
\* response.completed repeats its sequence number.
openai_stream_response_seq_repeated(r, tools, content_parts) ==
    LET input_tokens == count_input_tokens("OpenAI", r)
        output_tokens == IF tools THEN 15
                         ELSE Max(SumTokens(content_parts), 1)
        events ==
            << Frag("response.created", "response"),
               Frag("response.in_progress", "response") >>
            \o (IF tools THEN openai_tool_events(r)
                ELSE openai_text_events(content_parts))
            \o <<[Frag("response.completed", "response") EXCEPT
                    !.finish = "completed",
                    !.usage = Usage(input_tokens, output_tokens)]>> IN
    [paced |-> [i \in 1..Len(events) |->
                   [events[i] EXCEPT !.seq = IF i = Len(events) THEN i - 2 ELSE i - 1]],
     unpaced |-> <<>>]

\* openai.rs stream_response: output tokens are 15 on the tool path and,
\* on the text path, summed over the chunks as stream_chunks returned them;
\* every event carries the next sequence number and goes through the
\* pacing stage.
openai_stream_response(r, tools, content_parts) ==
    LET input_tokens == count_input_tokens("OpenAI", r)
        output_tokens == IF tools THEN 15
                         ELSE Max(SumTokens(content_parts), 1)
        events ==
            << Frag("response.created", "response"),
               Frag("response.in_progress", "response") >>
            \o (IF tools THEN openai_tool_events(r)
                ELSE openai_text_events(content_parts))
            \o <<[Frag("response.completed", "response") EXCEPT
                    !.finish = "completed",
                    !.usage = Usage(input_tokens, output_tokens)]>> IN
    [paced |-> [i \in 1..Len(events) |-> [events[i] EXCEPT !.seq = i - 1]],
     unpaced |-> <<>>]

\* stream_response of the provider.
stream_response_of(provider, r, tools, thinking, thinking_text, content_parts) ==
    IF provider = "Cerebras" THEN cerebras_stream_response(r, tools, content_parts)
    ELSE IF provider = "Claude"
    THEN claude_stream_response(r, tools, thinking, thinking_text, content_parts)
    ELSE IF provider = "Gemini" THEN gemini_stream_response(r, tools, content_parts)
    ELSE openai_stream_response(r, tools, content_parts)

\* non_stream_response of the provider.
non_stream_response_of(provider, r, tools, thinking, g) ==
    IF provider = "Cerebras" THEN cerebras_non_stream_response(r, tools, g)
    ELSE IF provider = "Claude" THEN claude_non_stream_response(r, tools, thinking, g)
    ELSE IF provider = "Gemini" THEN gemini_non_stream_response(r, tools, g)
    ELSE openai_non_stream_response(r, tools, g)

(***************************************************************************)
(* One request at a provider handler: the request as deserialized, the     *)
(* handler's position, what it decided and built, and, for a streaming     *)
(* response, the body stream the server polls: fragments that passed the   *)
(* pacing stage (paced), fragments chained after it (unpaced), what was    *)
(* written so far, whether a pacing sleep is pending, and whether the      *)
(* body was dropped.                                                       *)
(***************************************************************************)
Request(history, turn, system, tools, streaming, thinking, include_usage, max_tokens) ==
    [history |-> history, turn |-> turn, system |-> system,
     tools |-> tools, streaming |-> streaming,
     thinking |-> thinking, include_usage |-> include_usage,
     max_tokens |-> max_tokens]

NewStream(provider, r) ==
    [provider |-> provider, request |-> r, pc |-> "request",
     wants_tools |-> FALSE, wants_thinking |-> FALSE, thinking_text |-> <<>>,
     paced |-> <<>>, unpaced |-> <<>>, body |-> NoBody,
     emitted |-> <<>>, sleeping |-> FALSE, dropped |-> FALSE]

Streams == DOMAIN stream

\* The fragments of a stream in the order the handler constructed them.
Constructed(s) == stream[s].paced \o stream[s].unpaced

\* The draws stream_response makes before stream_chunks (text path) or at
\* all (tool path), in source order.  Cerebras: the fingerprint, then the
\* tool_call_id of generate_tool_chunks.  Claude: generate_message_id, the
\* thinking paragraph and its signature, then generate_tool_use_id.
\* Gemini: none.  OpenAI: generate_response_id, then the item id and the
\* call id, or generate_message_id.
stream_response_draws(provider, tools, thinking, g) ==
    IF provider = "Gemini" THEN [out |-> <<>>, rng |-> g]
    ELSE IF provider = "Cerebras"
    THEN LET fp == fingerprint(g) IN
         [out |-> <<>>, rng |-> IF tools THEN tool_call_id(fp.rng).rng ELSE fp.rng]
    ELSE IF provider = "Claude"
    THEN LET id == tool_call_id(g)
             thinking_text == IF thinking THEN paragraph(id.rng)
                              ELSE [out |-> <<>>, rng |-> id.rng]
             signature == IF thinking THEN generate_signature(thinking_text.rng)
                          ELSE [out |-> <<>>, rng |-> thinking_text.rng] IN
         [out |-> thinking_text.out,
          rng |-> IF tools THEN tool_call_id(signature.rng).rng ELSE signature.rng]
    ELSE LET id == tool_call_id(g)
             item_id == tool_call_id(id.rng) IN
         [out |-> <<>>,
          rng |-> IF tools THEN tool_call_id(item_id.rng).rng ELSE item_id.rng]

\* The entry point of the provider (chat_completions, messages,
\* handle_model_action, responses) and, for a streaming request, the part
\* of stream_response before the answer is generated: the identifiers and
\* a requested thinking paragraph are drawn, and on the text path
\* stream_chunks is entered with the token budget.
handle_request(s) ==
    /\ stream[s].pc = "request"
    /\ LET p == stream[s].provider
           r == stream[s].request
           tools == wants_tools(p, r)
           thinking == wants_thinking(p, r)
           thought == stream_response_draws(p, tools, thinking, gen[s].rng)
           budget == IF p = "Claude" THEN Min(r.max_tokens, 100)
                     ELSE unwrap_or(r.max_tokens, 50) IN
         IF ~r.streaming
         THEN /\ stream' = [stream EXCEPT ![s].pc = "non_stream",
                                          ![s].wants_tools = tools,
                                          ![s].wants_thinking = thinking]
              /\ UNCHANGED gen
         ELSE /\ stream' = [stream EXCEPT
                              ![s].pc = IF tools THEN "build" ELSE "chunks",
                              ![s].wants_tools = tools,
                              ![s].wants_thinking = thinking,
                              ![s].thinking_text = thought.out]
              /\ gen' = [gen EXCEPT
                           ![s] = IF tools
                                  THEN [@ EXCEPT !.rng = thought.rng]
                                  ELSE [@ EXCEPT !.rng = thought.rng,
                                                 !.total_tokens = budget,
                                                 !.remaining = budget,
                                                 !.chunks = <<>>,
                                                 !.pc = "loop"]]
    /\ UNCHANGED requestVars

\* non_stream_response: the whole body is built and returned at once.
non_stream_response(s) ==
    /\ stream[s].pc = "non_stream"
    /\ LET built == non_stream_response_of(stream[s].provider, stream[s].request,
                                           stream[s].wants_tools,
                                           stream[s].wants_thinking, gen[s].rng) IN
         /\ stream' = [stream EXCEPT ![s].pc = "done", ![s].body = built.body]
         /\ gen' = [gen EXCEPT ![s].rng = built.rng]
    /\ UNCHANGED requestVars

\* stream_response, from the generated chunks to Body::from_stream: the
\* fragments are constructed and the response is handed to the server.
stream_response(s) ==
    /\ \/ stream[s].pc = "build"
       \/ stream[s].pc = "chunks" /\ gen[s].pc = "returned"
    /\ LET built == stream_response_of(stream[s].provider, stream[s].request,
                                       stream[s].wants_tools,
                                       stream[s].wants_thinking,
                                       stream[s].thinking_text, gen[s].chunks) IN
         stream' = [stream EXCEPT ![s].pc = "streaming",
                                  ![s].paced = built.paced,
                                  ![s].unpaced = built.unpaced]
    /\ UNCHANGED <<requestVars, gen>>

\* The server polls the body for the next fragment and the pacing stage
\* starts its sleep: .then(|x| async { sleep(..).await; x }).
pacing_sleep(s) ==
    /\ stream[s].pc = "streaming" /\ ~stream[s].dropped /\ ~stream[s].sleeping
    /\ Len(stream[s].emitted) < Len(stream[s].paced)
    /\ stream' = [stream EXCEPT ![s].sleeping = TRUE]
    /\ UNCHANGED <<requestVars, gen>>

\* A pacing stage that hands fragments out last first.
emit_fragment_reversed(s) ==
    /\ stream[s].pc = "streaming" /\ ~stream[s].dropped /\ stream[s].sleeping
    /\ LET n == Len(stream[s].emitted) IN
         stream' = [stream EXCEPT
                      ![s].emitted =
                          Append(@, [frag |-> stream[s].paced[Len(stream[s].paced) - n],
                                     slept |-> stream[s].sleeping]),
                      ![s].sleeping = FALSE]
    /\ UNCHANGED <<requestVars, gen>>

\* A pacing stage that goes on after the body was dropped.
emit_fragment_detached(s) ==
    /\ stream[s].pc = "streaming"
    /\ stream[s].sleeping \/ stream[s].dropped
    /\ Len(stream[s].emitted) < Len(stream[s].paced)
    /\ LET n == Len(stream[s].emitted) IN
         stream' = [stream EXCEPT
                      ![s].emitted = Append(@, [frag |-> stream[s].paced[n + 1],
                                                slept |-> stream[s].sleeping]),
                      ![s].sleeping = FALSE]
    /\ UNCHANGED <<requestVars, gen>>

\* The sleep elapsed: the pacing stage yields the fragment and it is written.
emit_fragment(s) ==
    /\ stream[s].pc = "streaming" /\ ~stream[s].dropped /\ stream[s].sleeping
    /\ LET n == Len(stream[s].emitted) IN
         stream' = [stream EXCEPT
                      ![s].emitted = Append(@, [frag |-> stream[s].paced[n + 1],
                                                slept |-> stream[s].sleeping]),
                      ![s].sleeping = FALSE]
    /\ UNCHANGED <<requestVars, gen>>

\* A fragment chained after the pacing stage is yielded as soon as it is
\* polled: .chain(stream::once(..)) behind .then(..).
emit_unpaced(s) ==
    /\ stream[s].pc = "streaming" /\ ~stream[s].dropped /\ ~stream[s].sleeping
    /\ Len(stream[s].emitted) >= Len(stream[s].paced)
    /\ Len(stream[s].emitted) < Len(Constructed(s))
    /\ LET n == Len(stream[s].emitted) - Len(stream[s].paced) IN
         stream' = [stream EXCEPT
                      ![s].emitted = Append(@, [frag |-> stream[s].unpaced[n + 1],
                                                slept |-> FALSE])]
    /\ UNCHANGED <<requestVars, gen>>

\* The client goes away before the stream ended: the server drops the
\* body, and with it the stream and a pending sleep.
client_disconnect(s) ==
    /\ stream[s].pc = "streaming" /\ ~stream[s].dropped
    /\ Len(stream[s].emitted) < Len(Constructed(s))
    /\ stream' = [stream EXCEPT ![s].dropped = TRUE, ![s].sleeping = FALSE]
    /\ UNCHANGED <<requestVars, gen>>

(***************************************************************************)
(* Requests of the handler specifications.                                 *)
(***************************************************************************)
TextWeather == <<"W", "h", "a", "t", " ", "i", "s", " ", "t", "h", "e", " ", "w", "e", "a", "t", "h", "e", "r", " ", "i", "n", " ", "P", "a", "r", "i", "s", "?">>
TextHello == <<"H", "e", "l", "l", "o", " ", "t", "h", "e", "r", "e">>
TextShout == <<"F", "I", "N", "D", " ", "?", "?", "?">>
\* "Search\nRome": the words are separated by a line feed.
TextLines == <<"S", "e", "a", "r", "c", "h", "\n", "R", "o", "m", "e">>
\* "find\u000bit in\u00a0Rome\u2003": sixteen characters in nineteen bytes,
\* the words separated by white space other than blank, tab and line ends.
TextSpaced ==
    <<"f", "i", "n", "d", VerticalTab, "i", "t", " ", "i", "n", NoBreakSpace,
      "R", "o", "m", "e", EmSpace>>
ToolGetWeather == <<"g", "e", "t", "_", "w", "e", "a", "t", "h", "e", "r">>

\* The server configurations of the handler specifications: the defaults
\* with and without a base latency.
HandlerConfigs == {[DefaultConfig EXCEPT !.latency_ms = l] : l \in LatencyChoices}

(***************************************************************************)
(* One streaming request per behaviour, for every provider, both paths     *)
(* (tool invocation and text), every token budget and every state of the   *)
(* request's generator; the client may go away at any point.               *)
(***************************************************************************)
StreamRequests ==
    {pr \in Providers \X [history : {<<>>}, system : {NoText},
                          turn : {<<TextWeather>>, <<TextHello>>},
                          tools : {<<ToolGetWeather>>},
                          streaming : {TRUE},
                          thinking : BOOLEAN,
                          include_usage : BOOLEAN,
                          max_tokens : (0..MaxTokens) \cup {NoMaxTokens}] :
        /\ pr[2].thinking => pr[1] = "Claude"
        /\ pr[2].max_tokens = NoMaxTokens => pr[1] # "Claude"
        /\ pr[2].include_usage => pr[1] = "Cerebras"}

InitStream ==
    /\ config \in HandlerConfigs
    /\ request_count = 0
    /\ rng \in EntropyRng(config)
    /\ req = <<>>
    /\ \E g \in RngStates : gen = <<NewGenerator(g)>>
    /\ \E pr \in StreamRequests : stream = <<NewStream(pr[1], pr[2])>>

NextStream ==
    \/ \E s \in Streams : handle_request(s)
    \/ \E s \in Streams : stream_chunks_loop(s)
    \/ \E s \in Streams : stream_chunks_return(s)
    \/ \E s \in Streams : stream_response(s)
    \/ \E s \in Streams : pacing_sleep(s)
    \/ \E s \in Streams : emit_fragment(s)
    \/ \E s \in Streams : emit_unpaced(s)
    \/ \E s \in Streams : client_disconnect(s)

SpecStream == InitStream /\ [][NextStream]_vars

\* The stream was written to its end.
StreamEnded(s) ==
    stream[s].pc = "streaming" /\ Len(stream[s].emitted) = Len(Constructed(s))

\* The fragments written so far, in the order they were written.
Written(s) == [i \in 1..Len(stream[s].emitted) |-> stream[s].emitted[i].frag]

\* The kinds of fragment that carry a piece of the generated text or of
\* the reasoning text.
DeltaKinds == {"content", "text_delta", "thinking_delta", "text", "output_text_delta"}

\* The delta texts written so far.
WrittenDeltaTexts(s) ==
    LET sel == SelectSeq(Written(s), LAMBDA f : f.kind \in DeltaKinds) IN
    [i \in 1..Len(sel) |-> sel[i].text]

\* The written fragments that carry a usage tally.
WrittenUsages(s) == SelectSeq(Written(s), LAMBDA f : f.usage # NoUsage)

\* C12: in a streamed text (and reasoning) response of any provider, the
\* output-token count of the final usage equals the sum of estimate_tokens
\* over the delta texts written in that stream.
C12_UsageIsSumOfDeltas ==
    \A s \in Streams :
        (StreamEnded(s) /\ ~stream[s].wants_tools /\ WrittenUsages(s) # <<>>)
        => WrittenUsages(s)[Len(WrittenUsages(s))].usage.output
               = SumTokens(WrittenDeltaTexts(s))

\* Position of a chat-completions fragment in the stream: the role
\* announcement, a content or tool-call delta, the final chunk, the
\* terminator line.
ChatPhase(f) ==
    IF f.type = "[DONE]" THEN 4
    ELSE IF f.kind = "role" THEN 1
    ELSE IF f.kind = "final" THEN 3
    ELSE 2

\* C13: a chat-completions stream is, in order, one role fragment, the
\* content or tool-call delta fragments, exactly one final fragment, which
\* alone carries finish_reason, and the [DONE] line, which is written
\* exactly once and is the last thing written.
C13_ChatStreamOrder ==
    \A s \in Streams :
        (stream[s].provider = "Cerebras" /\ stream[s].pc = "streaming") =>
            LET w == Written(s)
                n == Len(w) IN
            /\ \A i \in 1..n :
                 /\ ChatPhase(w[i]) = 1 <=> i = 1
                 /\ i > 1 => ChatPhase(w[i - 1]) <= ChatPhase(w[i])
                 /\ ChatPhase(w[i]) = 3 =>
                        /\ ChatPhase(w[i - 1]) < 3
                        /\ w[i].finish \in {"stop", "tool_calls"}
                 /\ ChatPhase(w[i]) # 3 => w[i].finish = "none"
                 /\ ChatPhase(w[i]) = 4 => i = n /\ ChatPhase(w[i - 1]) = 3
            /\ StreamEnded(s) => n >= 3 /\ ChatPhase(w[n]) = 4

\* C13 witness: a chat-completions text stream with two content deltas was
\* written to its end.
C13_Witness ==
    /\ stream[1].provider = "Cerebras" /\ StreamEnded(1)
    /\ ~stream[1].wants_tools
    /\ Len(WrittenDeltaTexts(1)) = 2

\* C15: every fragment written to a stream, the provider's terminator
\* included, is preceded by a pacing suspension of its own, whatever the
\* configured latency_ms.
C15_EveryFragmentPaced ==
    \A s \in Streams :
        \A i \in 1..Len(stream[s].emitted) : stream[s].emitted[i].slept

\* C16: once the response body of a stream is dropped, after k fragments
\* were written, nothing more is ever written on it: the written fragments
\* stay the k written before, a sleep that was pending does not complete,
\* and the stream stays dropped (no retry, no resumption).
C16_NothingAfterDisconnect ==
    [][\A s \in Streams :
          stream[s].dropped =>
              /\ stream'[s].emitted = stream[s].emitted
              /\ stream'[s].dropped
              /\ ~stream'[s].sleeping]_vars

\* C16 witness: the body was dropped after two fragments were written and
\* before the stream ended.
C16_Witness ==
    /\ stream[1].dropped
    /\ Len(stream[1].emitted) = 2
    /\ Len(Constructed(1)) > 2

(***************************************************************************)
(* Several streaming responses in progress at once: each request is its    *)
(* own task with its own generator and body stream; their steps            *)
(* interleave at every suspension point.                                   *)
(***************************************************************************)
\* Number of streams in progress at once.
MaxStreams == 2

ConcRequests ==
    {pr \in {"Claude", "Gemini", "Cerebras"} \X
            [history : {<<>>}, system : {NoText},
                          turn : {<<TextHello>>},
             tools : {NoTools},
             streaming : {TRUE},
             thinking : {FALSE},
             include_usage : {FALSE},
             max_tokens : {1}] : TRUE}

\* ContentGenerator::new() seeds the generator of each request from
\* entropy, whatever the other requests got: any states, equal ones included.
InitConc ==
    /\ config = DefaultConfig
    /\ request_count = 0
    /\ rng \in EntropyRng(config)
    /\ req = <<>>
    /\ gen \in [1..MaxStreams -> new]
    /\ stream \in [1..MaxStreams -> {NewStream(pr[1], pr[2]) : pr \in ConcRequests}]

SpecConc == InitConc /\ [][NextStream]_vars

\* C14: with several streams in progress, the fragments written on each
\* stream are, at every moment and under every interleaving, exactly the
\* first fragments the handler constructed for it, in construction order:
\* none dropped, duplicated or reordered.
C14_FragmentsInConstructionOrder ==
    \A s \in Streams :
        stream[s].pc = "streaming" =>
            /\ Len(stream[s].emitted) <= Len(Constructed(s))
            /\ Written(s) = SubSeq(Constructed(s), 1, Len(stream[s].emitted))

\* C14 witness: two streams are in progress, both partly written, one of
\* them in a pacing sleep while the other has written more fragments.
C14_Witness ==
    /\ stream[1].pc = "streaming" /\ stream[2].pc = "streaming"
    /\ Len(stream[1].emitted) = 3 /\ ~StreamEnded(1)
    /\ Len(stream[2].emitted) = 1 /\ stream[2].sleeping

(***************************************************************************)
(* The tool heuristic: one request per behaviour, streaming or not, for    *)
(* every provider, with the tools field absent, empty or declaring one     *)
(* function, and a last turn that has no part, a part without text, or     *)
(* text with or without a trigger word; for the Messages API also a turn   *)
(* whose thinking block mentions a trigger word and whose text does not.   *)
(***************************************************************************)
ToolTurns ==
    {<<>>, <<TextWeather>>, <<TextHello>>, <<TextShout>>, <<TextLines>>,
     <<TextSpaced>>, <<NoText, TextWeather>>,
     <<ThinkingBlock(TextWeather), TextHello>>}

\* A turn the provider's request type can hold.
HasThinking(turn) == \E i \in 1..Len(turn) : IsThinking(turn[i])

ToolRequests ==
    {pr \in Providers \X [history : {<<>>}, system : {NoText},
                          turn : ToolTurns,
                          tools : {NoTools, <<>>, <<ToolGetWeather>>},
                          streaming : BOOLEAN,
                          thinking : BOOLEAN,
                          include_usage : {FALSE},
                          max_tokens : {1}] :
        /\ pr[2].thinking => pr[1] = "Claude"
        /\ HasThinking(pr[2].turn) => pr[1] = "Claude"
        /\ pr[1] = "Cerebras" => Len(pr[2].turn) <= 1}

InitTool ==
    /\ config \in HandlerConfigs
    /\ request_count = 0
    /\ rng \in EntropyRng(config)
    /\ req = <<>>
    /\ \E g \in RngStates : gen = <<NewGenerator(g)>>
    /\ \E pr \in ToolRequests : stream = <<NewStream(pr[1], pr[2])>>

NextTool ==
    \/ \E s \in Streams : handle_request(s)
    \/ \E s \in Streams : non_stream_response(s)
    \/ \E s \in Streams : stream_chunks_loop(s)
    \/ \E s \in Streams : stream_chunks_return(s)
    \/ \E s \in Streams : stream_response(s)

SpecTool == InitTool /\ [][NextTool]_vars

\* The handler has decided between a tool invocation and text.
Decided(s) == stream[s].pc # "request"

\* The response was built: the body of a non-streaming response, or the
\* fragments of a streaming one.
Built(s) == stream[s].pc \in {"done", "streaming"}

\* The request declares at least one tool or function.
DeclaresTool(r) == r.tools # NoTools /\ Len(r.tools) >= 1

\* C17: a tool invocation is chosen iff the inspected text of the last turn
\* contains a trigger word, whatever the case, and the request declares at
\* least one tool; without a declared tool (tools absent or empty) no tool
\* invocation is chosen.
C17_ToolChoice ==
    \A s \in Streams :
        Decided(s) =>
            LET r == stream[s].request
                text == FirstText(r.turn) IN
            stream[s].wants_tools
                <=> (text # NoText /\ MentionsTrigger(text) /\ DeclaresTool(r))

\* The finish/stop reason each provider gives a plain text completion.
NormalSentinel(provider) ==
    IF provider = "Cerebras" THEN "stop"
    ELSE IF provider = "Claude" THEN "end_turn"
    ELSE IF provider = "Gemini" THEN "STOP"
    ELSE "completed"

\* A fragment that opens or carries a tool call.
IsToolCallFrag(f) ==
    \/ f.kind \in {"tool_calls", "functionCall"}
    \/ f.type = "content_block_start" /\ f.kind = "tool_use"
    \/ f.type = "response.output_item.added" /\ f.kind = "function_call"

\* A fragment that carries generated answer text.
IsTextFrag(f) == f.kind \in {"content", "text_delta", "text", "output_text_delta"}

\* Number of tool-call items of the built response.
ToolCallItems(s) ==
    IF stream[s].pc = "done"
    THEN Len(SelectSeq(stream[s].body.items, LAMBDA it : it.kind = "tool_call"))
    ELSE Len(SelectSeq(Constructed(s), IsToolCallFrag))

\* Number of text items (text deltas, when streamed) of the built response.
TextItems(s) ==
    IF stream[s].pc = "done"
    THEN Len(SelectSeq(stream[s].body.items, LAMBDA it : it.kind = "text"))
    ELSE Len(SelectSeq(Constructed(s), IsTextFrag))

\* The finish/stop reasons the built response carries.
FinishReasons(s) ==
    IF stream[s].pc = "done"
    THEN {stream[s].body.finish}
    ELSE {Constructed(s)[i].finish : i \in 1..Len(Constructed(s))} \ {"none"}

\* C18: streaming or not, a response for which a tool invocation was
\* chosen has exactly one tool-call item, no text item, and one finish/stop
\* reason, which is not the provider's normal-completion sentinel; any
\* other response has a text item, no tool-call item, and the
\* normal-completion sentinel.
C18_ToolResponseShape ==
    \A s \in Streams :
        Built(s) =>
            IF stream[s].wants_tools
            THEN /\ ToolCallItems(s) = 1 /\ TextItems(s) = 0
                 /\ Cardinality(FinishReasons(s)) = 1
                 /\ NormalSentinel(stream[s].provider) \notin FinishReasons(s)
            ELSE /\ ToolCallItems(s) = 0 /\ TextItems(s) >= 1
                 /\ FinishReasons(s) = {NormalSentinel(stream[s].provider)}

\* The argument of the tool call of the built response.
ToolArgument(s) ==
    IF stream[s].pc = "done"
    THEN SelectSeq(stream[s].body.items, LAMBDA it : it.kind = "tool_call")[1].argument
    ELSE SelectSeq(Constructed(s), LAMBDA f : f.argument # <<>> \/ f.kind \in
                       {"tool_calls", "functionCall", "input_json_delta"}
                       \/ f.type = "response.function_call_arguments.delta")[1].argument

\* C19: the tool-call argument is the last whitespace-separated word longer
\* than two characters of the triggering text, stripped of leading and
\* trailing non-alphanumeric characters, and "unknown" when no word
\* qualifies; it is never empty and never starts or ends with a
\* non-alphanumeric character.
C19_ToolArgument ==
    \A s \in Streams :
        (Built(s) /\ stream[s].wants_tools) =>
            LET text == FirstText(stream[s].request.turn)
                long == SelectSeq(split_whitespace(text), LAMBDA w : Len(w) > 2)
                arg == ToolArgument(s) IN
            /\ arg = IF long = <<>> THEN Unknown
                     ELSE trim_matches_non_alphanumeric(long[Len(long)])
            /\ arg # <<>>
            /\ is_alphanumeric(arg[1]) /\ is_alphanumeric(arg[Len(arg)])

\* ends_with('.')
EndsWithPeriod(chunk) == chunk # <<>> /\ chunk[Len(chunk)] = "."

\* C21: stream_chunks(n) with n > 0 returns a non-empty sequence whose last
\* element is the generated words with a period appended, and no other
\* element ends with a period; stream_chunks(0) returns the empty sequence.
C21_PeriodOnLastChunkOnly ==
    \A s \in Generators :
        LET chunks == gen[s].chunks
            n == Len(chunks) IN
        /\ gen[s].pc = "loop" => \A i \in 1..n : ~EndsWithPeriod(chunks[i])
        /\ gen[s].pc = "returned" =>
             IF gen[s].total_tokens > 0
             THEN /\ n >= 1
                  /\ EndsWithPeriod(chunks[n])
                  /\ ~EndsWithPeriod(SubSeq(chunks[n], 1, Len(chunks[n]) - 1))
                  /\ \A i \in 1..(n - 1) : ~EndsWithPeriod(chunks[i])
             ELSE chunks = <<>>

\* C21 witness: a call with a positive budget returned several chunks and
\* the last one carries the period.
C21_Witness ==
    /\ gen[1].pc = "returned"
    /\ gen[1].total_tokens = 2
    /\ Len(gen[1].chunks) = 2
    /\ EndsWithPeriod(gen[1].chunks[2])

\* The fragment carries a piece of the answer text: a chat-completions
\* content delta, a Messages text_delta, a Gemini text chunk, a Responses
\* output_text.delta.
IsTextDelta(f) ==
    \/ f.kind \in {"content", "text_delta", "output_text_delta"}
    \/ f.type = "chunk" /\ f.kind = "text"

\* The answer-text deltas written so far, in order.
WrittenTextDeltas(s) ==
    LET sel == SelectSeq(Written(s), IsTextDelta) IN
    [i \in 1..Len(sel) |-> sel[i].text]

\* C22: on the streamed text path of every provider the i-th text delta is
\* the i-th chunk stream_chunks returned, as it is for i = 1 and behind
\* exactly one inserted space for i > 1; once the stream ended there is one
\* delta per chunk and their concatenation is the chunks joined by single
\* spaces.
C22_TextDeltasJoinChunks ==
    \A s \in Streams :
        (stream[s].pc = "streaming" /\ ~stream[s].wants_tools) =>
            LET deltas == WrittenTextDeltas(s)
                chunks == gen[s].chunks IN
            /\ Len(deltas) <= Len(chunks)
            /\ \A i \in 1..Len(deltas) :
                 IF i = 1
                 THEN deltas[i] = chunks[i]
                 ELSE /\ Head(deltas[i]) = " "
                      /\ Tail(deltas[i]) = chunks[i]
            /\ StreamEnded(s) =>
                 /\ Len(deltas) = Len(chunks)
                 /\ concat(deltas) = join(chunks)

\* C22 witness: a Gemini text stream of several chunks was written to its
\* end.
C22_Witness ==
    /\ stream[1].provider = "Gemini"
    /\ StreamEnded(1)
    /\ ~stream[1].wants_tools
    /\ Len(WrittenTextDeltas(1)) >= 2

(***************************************************************************)
(* Responses and their accounting: one request per behaviour, streaming    *)
(* or not, for every provider, with earlier turns, a system text, a        *)
(* declared tool, a thinking configuration, every token budget and every   *)
(* state of the request's generator.  A chat-completions message carries   *)
(* one optional string and the request has no system field.                *)
(***************************************************************************)
ResponseHistories ==
    {<<>>, <<<<TextHello>>>>, <<<<TextShout>>, <<NoText, TextWeather>>>>,
     <<<<ThinkingBlock(TextHello), TextShout>>>>}

ResponseRequests ==
    {pr \in Providers \X [history : ResponseHistories,
                          system : {NoText, TextShout},
                          turn : {<<TextHello>>, <<TextWeather>>},
                          tools : {NoTools, <<ToolGetWeather>>},
                          streaming : BOOLEAN,
                          thinking : BOOLEAN,
                          include_usage : BOOLEAN,
                          max_tokens : (0..MaxTokens) \cup {NoMaxTokens}] :
        /\ pr[2].thinking => pr[1] = "Claude"
        /\ pr[2].max_tokens = NoMaxTokens => pr[1] # "Claude"
        /\ (\E i \in 1..Len(pr[2].history) : HasThinking(pr[2].history[i]))
              => pr[1] = "Claude"
        /\ pr[2].include_usage => (pr[1] = "Cerebras" /\ pr[2].streaming)
        /\ pr[1] = "Cerebras" =>
              /\ pr[2].system = NoText
              /\ \A i \in 1..Len(pr[2].history) : Len(pr[2].history[i]) <= 1}

InitResponse ==
    /\ config = DefaultConfig
    /\ request_count = 0
    /\ rng = RngWithSeed(42)
    /\ req = <<>>
    /\ \E g \in RngStates : gen = <<NewGenerator(g)>>
    /\ \E pr \in ResponseRequests : stream = <<NewStream(pr[1], pr[2])>>

SpecResponse == InitResponse /\ [][NextTool]_vars

\* The usage tallies of a built response: the one of the non-streaming
\* body and those of the constructed fragments.
BuiltUsages(s) ==
    {stream[s].body.usage} \cup {Constructed(s)[i].usage : i \in 1..Len(Constructed(s))}

\* C23: every usage tally of a chat-completions, Gemini or Responses
\* response, in the non-streaming body and in every streamed fragment that
\* carries one, has total = input tokens + output tokens.
C23_TotalIsInputPlusOutput ==
    \A s \in Streams :
        (Built(s) /\ stream[s].provider # "Claude") =>
            /\ \A u \in BuiltUsages(s) :
                 u # NoUsage =>
                    /\ u.input >= 0 /\ u.output >= 0
                    /\ u.total = u.input + u.output
            /\ stream[s].pc = "done" => stream[s].body.usage # NoUsage

\* C23 witness: a Gemini text stream was built whose chunks carry running
\* usage tallies with different totals.
C23_Witness ==
    /\ stream[1].provider = "Gemini"
    /\ stream[1].pc = "streaming"
    /\ ~stream[1].wants_tools
    /\ \E u1, u2 \in BuiltUsages(1) :
         u1 # NoUsage /\ u2 # NoUsage /\ u1.total < u2.total /\ u1.output > 0

\* The texts of the items of the given kind of a response body.
ItemTexts(body, kind) ==
    LET sel == SelectSeq(body.items, LAMBDA it : it.kind = kind) IN
    [i \in 1..Len(sel) |-> sel[i].text]

\* The fixed output-token overheads the handlers charge for a tool call
\* (claude.rs, gemini.rs, openai.rs).
ToolCallOverheads == {50, 12, 15}

\* C24: in a non-streaming response of every provider the reported output
\* tokens are estimate_tokens of the text returned plus estimate_tokens of
\* the reasoning text returned; when a tool call is produced the answer's
\* share is a fixed overhead instead, whatever the argument.
C24_NonStreamOutputTokens ==
    \A s \in Streams :
        stream[s].pc = "done" =>
            LET body == stream[s].body
                thought == SumTokens(ItemTexts(body, "thinking")) IN
            IF stream[s].wants_tools
            THEN body.usage.output - thought \in ToolCallOverheads
            ELSE body.usage.output = thought + SumTokens(ItemTexts(body, "text"))

\* The text of every part of every turn of the request that carries text,
\* in order; a thinking block carries its thinking text.
RECURSIVE TextParts(_)
TextParts(turns) ==
    IF turns = <<>> THEN <<>>
    ELSE LET bearing == SelectSeq(Head(turns), LAMBDA p : p # NoText) IN
         [i \in 1..Len(bearing) |->
             IF IsThinking(bearing[i]) THEN ThinkingOf(bearing[i]) ELSE bearing[i]]
         \o TextParts(Tail(turns))

\* C25: for every provider the reported input tokens are the sum of
\* estimate_tokens over every text-bearing part of every turn, plus
\* estimate_tokens of the system or instructions text when the request
\* carries one.
C25_InputTokens ==
    \A s \in Streams :
        Built(s) =>
            LET r == stream[s].request
                expected ==
                    SumTokens(TextParts(r.history \o <<r.turn>>))
                    + (IF r.system # NoText THEN estimate_tokens(r.system) ELSE 0) IN
            \A u \in BuiltUsages(s) : u # NoUsage => u.input = expected

\* The positions of the constructed fragments that satisfy the test.
Positions(frags, Test(_)) == {i \in 1..Len(frags) : Test(frags[i])}

\* The texts could be the value of one stream_chunks call: each is 1 to
\* tokens_per_chunk words of WORDS joined by single spaces, and the last
\* one, and only the last one, has the period appended.
IsStreamChunksResult(texts) ==
    LET Dictionary == {WORDS[i] : i \in 1..Len(WORDS)}
        n == Len(texts) IN
    \A i \in 1..n :
        LET stem == IF i = n /\ EndsWithPeriod(texts[i])
                    THEN SubSeq(texts[i], 1, Len(texts[i]) - 1) ELSE texts[i]
            ws == split_whitespace(stem) IN
        /\ i = n => EndsWithPeriod(texts[i])
        /\ stem = join(ws)
        /\ Len(ws) >= 1 /\ Len(ws) <= DefaultTokensPerChunk
        /\ \A j \in 1..Len(ws) : ws[j] \in Dictionary

\* The reasoning block of a Messages stream is, in order and exactly once,
\* its block start, its thinking deltas, one signature delta as the last
\* delta, its block stop, and all of it precedes the answer block's start.
ThinkingBlockOrder(frags) ==
    LET starts == Positions(frags, LAMBDA f : f.type = "content_block_start" /\ f.kind = "thinking")
        deltas == Positions(frags, LAMBDA f : f.kind = "thinking_delta")
        sigs == Positions(frags, LAMBDA f : f.kind = "signature_delta")
        stops == Positions(frags, LAMBDA f : f.type = "content_block_stop" /\ f.kind = "thinking")
        answers == Positions(frags, LAMBDA f : f.type = "content_block_start" /\ f.kind # "thinking") IN
    /\ Cardinality(starts) = 1 /\ Cardinality(sigs) = 1 /\ Cardinality(stops) = 1
    /\ Cardinality(answers) = 1
    /\ \A b \in starts, g \in sigs, e \in stops, a \in answers :
         /\ deltas = (b + 1)..(g - 1)
         /\ e = g + 1
         /\ e < a

\* The thinking item of a non-streaming Messages body precedes the single
\* answer item.
ThinkingItemFirst(body) ==
    /\ Len(body.items) = 2
    /\ body.items[1].kind = "thinking"
    /\ body.items[2].kind \in {"text", "tool_call"}

\* C26: when a thinking block is requested the reasoning block is produced
\* exactly once and entirely before the answer: in a stream block start,
\* one thinking delta per chunk returned by stream_chunks, one signature
\* delta as the last delta, block stop, then the answer's block start; in
\* a non-streaming body the thinking item precedes the single answer item.
C26_ThinkingBlock ==
    \A s \in Streams :
        (Built(s) /\ stream[s].wants_thinking) =>
            IF stream[s].pc = "streaming"
            THEN /\ ThinkingBlockOrder(Constructed(s))
                 /\ IsStreamChunksResult(DeltaTexts(Constructed(s), "thinking_delta"))
            ELSE ThinkingItemFirst(stream[s].body)

(***************************************************************************)
(* Determinism of the generator: two generators built by with_seed from    *)
(* the same seed are put through the same sequence of calls, each at its   *)
(* own pace.  Every call is recorded with its value, and next to each      *)
(* generator the seed it was built from.                                   *)
(***************************************************************************)
\* Number of calls in a sequence.
MaxCalls == 2

\* ContentGenerator::with_seed: the rng is Rng::with_seed(seed).
with_seed(seed) == {NewGenerator(RngWithSeed(seed))}

GeneratorSeeds == {7, 42, 1000}

\* The calls of the generator's interface, with their arguments.
GeneratorCalls ==
    {[name |-> "word", n |-> 0], [name |-> "sentence", n |-> 0],
     [name |-> "paragraph", n |-> 0]}
    \cup {[name |-> "words", n |-> n] : n \in {0, 2}}
    \cup {[name |-> "stream_chunks", n |-> n] : n \in {0, MaxTokens}}

CallSequences == UNION {[1..k -> GeneratorCalls] : k \in 1..MaxCalls}

\* The calls a generator has completed, in order, each with its value.
Results(k) ==
    IF gen[k].pc = "returned"
    THEN Append(gen[k].results, [name |-> "stream_chunks", n |-> gen[k].total_tokens,
                                 out |-> gen[k].chunks])
    ELSE gen[k].results

\* The next call of the sequence is made on generator k.  A stream_chunks
\* call enters its loop; every other call returns at once.
call(k) ==
    /\ gen[k].pc # "loop" /\ gen[k].calls # <<>>
    /\ Head(gen[k].calls) \in GeneratorCalls
    /\ LET c == Head(gen[k].calls)
           g == gen[k].rng
           r == IF c.name = "word" THEN word(g)
                ELSE IF c.name = "words" THEN words(g, c.n)
                ELSE IF c.name = "sentence" THEN sentence(g)
                ELSE IF c.name = "paragraph" THEN paragraph(g)
                ELSE [out |-> <<>>, rng |-> g] IN
         gen' = [gen EXCEPT
                   ![k].calls = Tail(@),
                   ![k].results = IF c.name = "stream_chunks" THEN Results(k)
                                  ELSE Append(Results(k), [name |-> c.name, n |-> c.n,
                                                           out |-> r.out]),
                   ![k].rng = r.rng,
                   ![k].pc = IF c.name = "stream_chunks" THEN "loop" ELSE "new",
                   ![k].total_tokens = c.n,
                   ![k].remaining = c.n,
                   ![k].chunks = <<>>]
    /\ UNCHANGED <<requestVars, stream>>

InitSeeded ==
    /\ config = DefaultConfig
    /\ request_count = 0
    /\ rng = RngWithSeed(42)
    /\ req = <<>>
    /\ stream = <<>>
    /\ \E seed \in GeneratorSeeds, cs \in CallSequences :
         \E g1, g2 \in with_seed(seed) :
            gen = << g1 @@ [calls |-> cs, results |-> <<>>, seed |-> seed],
                     g2 @@ [calls |-> cs, results |-> <<>>, seed |-> seed] >>

NextSeeded ==
    \/ \E k \in Generators : call(k)
    \/ \E k \in Generators : stream_chunks_loop(k)
    \/ \E k \in Generators : stream_chunks_return(k)

SpecSeeded == InitSeeded /\ [][NextSeeded]_vars

\* How far generator k is in the sequence of calls.
Progress(k) == <<Len(gen[k].calls), gen[k].pc, Len(gen[k].chunks)>>

\* The i-th value drawn from a generator seeded with seed, i >= 1 (the
\* sequence of the generator returns to its seed after all sixteen states).
RECURSIVE DrawAt(_, _)
DrawAt(seed, i) ==
    IF i % 16 = 0 THEN RngWithSeed(seed) ELSE RngStep(DrawAt(seed, (i % 16) - 1))

\* The vocabulary word the i-th draw selects.
DrawnWord(seed, i) == WORDS[RngUsize(DrawAt(seed, i), 1, Len(WORDS))]

\* A word as it stands in a text: capitalised at the start of a sentence,
\* followed by a period at the end of one.
Decorated(w, first, last) ==
    LET c == IF first THEN <<make_ascii_uppercase(Head(w))>> \o Tail(w) ELSE w IN
    IF last THEN Append(c, ".") ELSE c

\* The number of words of the texts before the j-th.
RECURSIVE WordsBefore(_, _)
WordsBefore(texts, j) ==
    IF j = 1 THEN 0
    ELSE WordsBefore(texts, j - 1) + Len(split_whitespace(texts[j - 1]))

\* The number of draws a completed call has used, read off its value: one
\* per word, one per sentence or chunk for its length, one per paragraph
\* for its number of sentences.
DrawsUsed(r) ==
    IF r.name = "word" THEN 1
    ELSE IF r.name = "words" THEN r.n
    ELSE IF r.name = "sentence" THEN 1 + Len(split_whitespace(r.out))
    ELSE IF r.name = "paragraph"
    THEN LET T == split_whitespace(r.out) IN
         1 + Cardinality({t \in 1..Len(T) : EndsWithPeriod(T[t])}) + Len(T)
    ELSE Len(r.out) + WordsBefore(r.out, Len(r.out) + 1)

\* The position, in the generator's sequence, of the first draw of the i-th
\* call.
RECURSIVE FirstDraw(_, _)
FirstDraw(results, i) ==
    IF i = 1 THEN 1
    ELSE FirstDraw(results, i - 1) + DrawsUsed(results[i - 1])

\* The value r.out of a call is the one the draws of the seeded generator
\* from position p on determine: every word is the word of its own draw,
\* taken in order, and every length is the length its draw gives.
IsValueOfDraws(r, seed, p) ==
    IF r.name = "word" THEN r.out = DrawnWord(seed, p)
    ELSE IF r.name = "words"
    THEN LET T == split_whitespace(r.out) IN
         /\ Len(T) = r.n /\ r.out = join(T)
         /\ \A t \in 1..Len(T) : T[t] = DrawnWord(seed, p + t - 1)
    ELSE IF r.name = "sentence"
    THEN LET T == split_whitespace(r.out) IN
         /\ Len(T) = RngUsize(DrawAt(seed, p), 5, 14) /\ r.out = join(T)
         /\ \A t \in 1..Len(T) :
              T[t] = Decorated(DrawnWord(seed, p + t), t = 1, t = Len(T))
    ELSE IF r.name = "paragraph"
    THEN LET T == split_whitespace(r.out)
             ends == {t \in 1..Len(T) : EndsWithPeriod(T[t])}
             SentenceOf(t) == 1 + Cardinality({e \in ends : e < t}) IN
         /\ Cardinality(ends) = RngUsize(DrawAt(seed, p), 2, 4)
         /\ Len(T) \in ends /\ r.out = join(T)
         /\ \A t \in 1..Len(T) :
              T[t] = Decorated(DrawnWord(seed, p + SentenceOf(t) + t),
                               t = 1 \/ (t - 1) \in ends, t \in ends)
         /\ \A e \in ends :
              LET before == {x \in ends : x < e}
                  prev == IF before = {} THEN 0
                          ELSE CHOOSE x \in before : \A y \in before : y <= x IN
              e - prev = RngUsize(DrawAt(seed, p + SentenceOf(e) + prev), 5, 14)
    ELSE LET C == r.out IN
         /\ WordsBefore(C, Len(C) + 1) = r.n
         /\ \A j \in 1..Len(C) :
              LET T == split_whitespace(C[j])
                  h == p + (j - 1) + WordsBefore(C, j) IN
              /\ Len(T) = Min(r.n - WordsBefore(C, j),
                              RngUsize(DrawAt(seed, h), 1, DefaultTokensPerChunk))
              /\ C[j] = join(T)
              /\ \A t \in 1..Len(T) :
                   T[t] = Decorated(DrawnWord(seed, h + t), FALSE,
                                    j = Len(C) /\ t = Len(T))

\* C27: two generators constructed with the same seed and given the same
\* sequence of word, words, sentence, paragraph and stream_chunks calls
\* return the same value for every call both have completed, and at equal
\* progress they are in the same state; the value of every completed call
\* is the one the seed's sequence of draws determines, the calls using the
\* draws one after the other with none skipped or used twice.
C27_SameSeedSameResults ==
    /\ \A i \in 1..Min(Len(Results(1)), Len(Results(2))) :
         Results(1)[i] = Results(2)[i]
    /\ Progress(1) = Progress(2) => gen[1] = gen[2]
    /\ \A k \in Generators : \A i \in 1..Len(Results(k)) :
         IsValueOfDraws(Results(k)[i], gen[k].seed, FirstDraw(Results(k), i))

\* C27 witness: both generators completed a sentence call followed by a
\* stream_chunks call that returned several chunks.
C27_Witness ==
    /\ gen[1].calls = <<>> /\ gen[2].calls = <<>>
    /\ gen[1].pc = "returned" /\ gen[2].pc = "returned"
    /\ Len(gen[1].chunks) >= 2
    /\ Len(Results(2)) = 2
    /\ Results(2)[1].name = "sentence"

(***************************************************************************)
(* Sequences of identifier calls, alone and mixed with the text calls, on  *)
(* two generators with the same seed.                                      *)
(***************************************************************************)
IdentifierCalls ==
    {[name |-> nm, n |-> 0] : nm \in {"tool_call_id", "completion_id", "fingerprint"}}

\* The next call of the sequence, an identifier call, is made on
\* generator k.
identifier_call(k) ==
    /\ gen[k].pc # "loop" /\ gen[k].calls # <<>>
    /\ Head(gen[k].calls) \in IdentifierCalls
    /\ \E uuid \in Uuids :
         LET c == Head(gen[k].calls)
             g == gen[k].rng
             r == IF c.name = "tool_call_id" THEN tool_call_id(g)
                  ELSE IF c.name = "fingerprint" THEN fingerprint(g)
                  ELSE completion_id(g, uuid) IN
         gen' = [gen EXCEPT
                   ![k].calls = Tail(@),
                   ![k].results = Append(Results(k), [name |-> c.name, n |-> c.n,
                                                      out |-> r.out]),
                   ![k].rng = r.rng,
                   ![k].pc = "new"]
    /\ UNCHANGED <<requestVars, stream>>

IdentifierSequences ==
    UNION {[1..k -> IdentifierCalls \cup GeneratorCalls] : k \in 1..MaxCalls}

InitIdentifiers ==
    /\ config = DefaultConfig
    /\ request_count = 0
    /\ rng = RngWithSeed(42)
    /\ req = <<>>
    /\ stream = <<>>
    /\ \E seed \in GeneratorSeeds, cs \in IdentifierSequences :
         \E g1, g2 \in with_seed(seed) :
            gen = << g1 @@ [calls |-> cs, results |-> <<>>],
                     g2 @@ [calls |-> cs, results |-> <<>>] >>

NextIdentifiers ==
    \/ \E k \in Generators : call(k)
    \/ \E k \in Generators : identifier_call(k)
    \/ \E k \in Generators : stream_chunks_loop(k)
    \/ \E k \in Generators : stream_chunks_return(k)

SpecIdentifiers == InitIdentifiers /\ [][NextIdentifiers]_vars

\* C28: every random output of the generator, the identifiers of
\* completion_id, tool_call_id and fingerprint included, comes from the
\* generator's own rng, so two generators with the same seed return the
\* same identifiers for the same sequence of calls.
C28_SameSeedSameIdentifiers ==
    \A i \in 1..Min(Len(Results(1)), Len(Results(2))) :
        Results(1)[i] = Results(2)[i]

(***************************************************************************)
(* estimate_tokens on its own.  It reads nothing of its argument but its   *)
(* byte length, so a text is given by its length: every length up to       *)
(* MaxLen and the lengths around 2^24, where an f32 stops holding every    *)
(* integer.  Two texts are estimated in either order.                      *)
(***************************************************************************)
MaxLen == 8

TextLengths == (0..MaxLen) \cup {F32Integers + d : d \in -4..8}

\* estimate_tokens is applied to text k.
estimate(k) ==
    /\ gen[k].pc = "text"
    /\ gen' = [gen EXCEPT ![k].tokens = estimate_tokens_of_len(gen[k].len),
                          ![k].pc = "estimated"]
    /\ UNCHANGED <<requestVars, stream>>

InitEstimate ==
    /\ config = DefaultConfig
    /\ request_count = 0
    /\ rng = RngWithSeed(42)
    /\ req = <<>>
    /\ stream = <<>>
    /\ \E a, b \in TextLengths :
         gen = << [len |-> a, tokens |-> 0, pc |-> "text"],
                  [len |-> b, tokens |-> 0, pc |-> "text"] >>

NextEstimate == \E k \in Generators : estimate(k)

SpecEstimate == InitEstimate /\ [][NextEstimate]_vars

\* C29: estimate_tokens(s) is ceil(byte_length(s) / 4), which is 0 for the
\* empty string, and a longer text never gets a smaller estimate.
C29_EstimateIsCeilOfQuarter ==
    /\ \A k \in Generators :
         gen[k].pc = "estimated" =>
            /\ 4 * gen[k].tokens >= gen[k].len
            /\ 4 * (gen[k].tokens - 1) < gen[k].len
            /\ gen[k].len = 0 => gen[k].tokens = 0
    /\ \A j, k \in Generators :
         (gen[j].pc = "estimated" /\ gen[k].pc = "estimated"
          /\ gen[j].len <= gen[k].len) => gen[j].tokens <= gen[k].tokens

(***************************************************************************)
(* error_response on its own: it is called for every fault kind and every  *)
(* provider, several times in a row, and the calls and their responses     *)
(* are recorded.                                                           *)
(***************************************************************************)
\* Number of error_response calls in a row.
MaxErrors == 2

\* error_response(error, provider) is called and its response recorded.
error_response_call(r) ==
    /\ req[r].pc = "errors"
    /\ Len(req[r].resp) < MaxErrors
    /\ \E error \in ErrorTypes, provider \in Providers :
         req' = [req EXCEPT
                   ![r].errors = Append(@, [error |-> error, provider |-> provider]),
                   ![r].resp = Append(@, error_response(error, provider))]
    /\ UNCHANGED <<config, request_count, rng, gen, stream>>

InitErrors ==
    /\ config = DefaultConfig
    /\ request_count = 0
    /\ rng = RngWithSeed(42)
    /\ req = << [NewRequest EXCEPT !.pc = "errors"] @@ [errors |-> <<>>] >>
    /\ gen = <<>>
    /\ stream = <<>>

NextErrors == \E r \in Requests : error_response_call(r)

SpecErrors == InitErrors /\ [][NextErrors]_vars

\* C30: error_response gives Unauthorized 401, RateLimit 429, ServerError
\* 500 and Timeout 504 whatever the provider, and every 429 response, of
\* every provider, carries a retry-after header.
C30_StatusByFaultKind ==
    \A r \in Requests :
        \A i \in 1..Len(req[r].resp) :
            LET error == req[r].errors[i].error
                resp == req[r].resp[i] IN
            /\ error = "Unauthorized" => resp.status = 401
            /\ error = "RateLimit" => resp.status = 429
            /\ error = "ServerError" => resp.status = 500
            /\ error = "Timeout" => resp.status = 504
            /\ resp.status = 429 => resp.retry_after # "none"

\* C30 witness: a rate-limit response for Gemini, with its retry-after
\* header, was followed by a timeout response for Claude.
C30_Witness ==
    /\ Len(req[1].resp) = 2
    /\ req[1].errors[1] = [error |-> "RateLimit", provider |-> "Gemini"]
    /\ req[1].resp[1].status = 429 /\ req[1].resp[1].retry_after = "60"
    /\ req[1].errors[2] = [error |-> "Timeout", provider |-> "Claude"]
    /\ req[1].resp[2].status = 504

(***************************************************************************)
(* Routing: one request of either method to each mounted or unmounted      *)
(* path, with every kind of body, with and without a JSON content-type,    *)
(* under every combination of the provider enable flags.                   *)
(***************************************************************************)
Methods == {"GET", "POST"}

\* get(health) and post(<provider>_handler): the method a mounted route
\* accepts; the method router answers 405 to the other one.
MethodOf(handler) == IF handler = "health" THEN "GET" ELSE "POST"

\* The router under error_middleware: path match, then method match, then
\* the handler.
route(cfg, method, path, content_type, body) ==
    LET h == create_router(cfg, path) IN
    IF h # "not_found" /\ method # MethodOf(h)
    THEN [handler |-> h,
          resp |-> [status |-> 405, kind |-> "method_not_allowed",
                    envelope |-> "none", retry_after |-> "none"]]
    ELSE [handler |-> h, resp |-> HandlerResponse(h, path, content_type, body)]

ProviderFlags == [cerebras : BOOLEAN, gemini : BOOLEAN, claude : BOOLEAN, openai : BOOLEAN]

RouteConfigSpace ==
    [latency_ms : {0},
     fail_after_requests : {0},
     error_rate : {0},
     force_error : {"None", "ServerError"},
     require_auth : BOOLEAN,
     valid_keys : {<<Key1>>},
     providers : ProviderFlags]

RoutePaths ==
    {PathHealth, PathChat, PathMessages, PathResponses,
     PathGemini, PathGeminiStream, PathGeminiUnknownAction, PathGeminiNoAction}

\* A request reaches the server (latency_ms = 0: no sleep).
latency_middleware_route(r) ==
    /\ req[r].pc = "new"
    /\ \E m \in Methods, p \in RoutePaths, h \in {NoHeader, HdrBearerK1},
          ct \in ContentTypes, b \in Bodies :
         req' = [req EXCEPT ![r].pc = "count", ![r].method = m, ![r].path = p,
                            ![r].header = h, ![r].content_type = ct, ![r].body = b,
                            ![r].slept = (latency_ms(config) > 0)]
    /\ UNCHANGED <<config, request_count, rng, gen, stream>>

\* error_middleware, line 141: next.run(request), with the request method.
error_middleware_next_route(r) ==
    /\ req[r].pc = "dispatch"
    /\ LET d == route(config, req[r].method, req[r].path,
                      req[r].content_type, req[r].body) IN
         req' = [req EXCEPT ![r].pc = "done", ![r].handler = d.handler,
                            ![r].resp = Append(@, d.resp)]
    /\ UNCHANGED <<config, request_count, rng, gen, stream>>

InitRoute ==
    /\ config \in RouteConfigSpace
    /\ request_count = 0
    /\ rng \in EntropyRng(config)
    /\ req = << NewRequest @@ [method |-> "GET"] >>
    /\ gen = <<>> /\ stream = <<>>

NextRoute ==
    \/ \E r \in Requests : latency_middleware_route(r)
    \/ \E r \in Requests : error_middleware_count(r)
    \/ \E r \in Requests : error_middleware_auth(r)
    \/ \E r \in Requests : error_middleware_fault(r)
    \/ \E r \in Requests : error_middleware_next_route(r)

SpecRoute == InitRoute /\ [][NextRoute]_vars

\* The enable flag of the provider a path belongs to.
EnableFlag(cfg, path) ==
    IF path = PathChat THEN cfg.providers.cerebras
    ELSE IF IsPrefix(PathGeminiPrefix, path) THEN cfg.providers.gemini
    ELSE IF path = PathMessages THEN cfg.providers.claude
    ELSE cfg.providers.openai

\* The handler create_router mounts on a provider path.
ProviderHandler(path) ==
    IF path = PathChat THEN "cerebras_handler"
    ELSE IF IsPrefix(PathGeminiPrefix, path) THEN "gemini_handler"
    ELSE IF path = PathMessages THEN "claude_handler"
    ELSE "openai_handler"

\* What a provider's handler answers to a request its extractor accepts:
\* the completion or, from Gemini, its own answer to a path without a known
\* action.
ProviderAnswers == {"completion", "invalid_path", "unknown_action"}

\* The request went through both checks of error_middleware to the router.
Routed(r) == Answered(r) /\ req[r].handler # "none"

\* C31: whatever the provider flags, a GET /health that is neither rejected
\* by the credential check nor by a fault is answered 200 "ok"; a POST to a
\* provider path reaches that provider's handler iff the provider's enable
\* flag is true, and is answered 404 by the router when the flag is false.
C31_RoutesFollowFlags ==
    \A r \in Requests :
        Routed(r) =>
            /\ (req[r].method = "GET" /\ req[r].path = PathHealth) =>
                   /\ req[r].handler = "health"
                   /\ StatusOf(r) = 200 /\ req[r].resp[1].kind = "ok"
            /\ (req[r].method = "POST" /\ req[r].path # PathHealth) =>
                   /\ EnableFlag(config, req[r].path)
                        <=> req[r].handler = ProviderHandler(req[r].path)
                   /\ EnableFlag(config, req[r].path)
                        => IF JsonRejection(req[r].content_type, req[r].body) = 0
                           THEN req[r].resp[1].kind \in ProviderAnswers
                           ELSE req[r].resp[1].kind = "rejection"
                   /\ ~EnableFlag(config, req[r].path)
                        => /\ req[r].handler = "not_found"
                           /\ StatusOf(r) = 404
                           /\ req[r].resp[1].kind = "not_found"
            /\ Len(req[r].resp) = 1

\* A POST to the path of a disabled provider was answered 404 by the router
\* while another provider is enabled.
C31_Witness ==
    \E r \in Requests :
        /\ Routed(r) /\ req[r].method = "POST" /\ req[r].path = PathChat
        /\ ~config.providers.cerebras /\ config.providers.claude
        /\ StatusOf(r) = 404

(***************************************************************************)
(* The provider of a fault response: one counted request on any path,      *)
(* rejected by the credential check or by a forced fault.                  *)
(***************************************************************************)
\* Request paths: the mounted ones, paths that contain one of the three
\* substrings further in, paths that contain two of them, and near misses.
PathSpace ==
    { <<>>, PathHealth, PathChat, PathMessages, PathResponses, PathGemini,
      PathGeminiPrefix,
      <<"/", "a", "p", "i">> \o PathResponses,
      PathMessages \o PathGeminiPrefix,
      PathResponses \o PathMessages,
      PathResponses \o PathGemini,
      SubSeq(PathMessages, 1, Len(PathMessages) - 1) }

PathConfigSpace ==
    [latency_ms : {0},
     fail_after_requests : {0},
     error_rate : {0},
     force_error : ForceErrors,
     require_auth : BOOLEAN,
     valid_keys : {<<Key1>>},
     providers : {AllEnabled}]

\* error_middleware, lines 123-139: the two rejections, each of which calls
\* provider_from_path(request.uri().path()) and answers in that provider's
\* envelope.
error_middleware_reject(r) ==
    /\ req[r].pc = "auth"
    /\ IF config.require_auth /\ ~is_valid_key(config, ExtractKey(req[r].header))
       THEN LET provider == provider_from_path(req[r].path) IN
            req' = [req EXCEPT
                ![r].pc = "done", ![r].provider = provider,
                ![r].resp = Append(@, error_response("Unauthorized", provider))]
       ELSE LET f == should_error_fixed(config, request_count) IN
            IF f.decided
            THEN LET provider == provider_from_path(req[r].path) IN
                 req' = [req EXCEPT
                     ![r].pc = "done", ![r].seen = f.loaded, ![r].fault = f.error,
                     ![r].provider = provider,
                     ![r].resp = Append(@, error_response(f.error, provider))]
            ELSE req' = [req EXCEPT ![r].pc = "dispatch", ![r].seen = f.loaded,
                                    ![r].fault = "None"]
    /\ UNCHANGED <<config, request_count, rng, gen, stream>>

InitPath ==
    /\ config \in PathConfigSpace
    /\ request_count = 1
    /\ rng \in EntropyRng(config)
    /\ \E h \in {NoHeader, HdrBearerK1}, p \in PathSpace :
         req = << [NewRequest EXCEPT !.pc = "auth", !.path = p, !.header = h,
                                     !.ticket = 1] @@ [provider |-> "none"] >>
    /\ gen = <<>> /\ stream = <<>>

NextPath ==
    \/ \E r \in Requests : error_middleware_reject(r)
    \/ \E r \in Requests : error_middleware_next(r)

SpecPath == InitPath /\ [][NextPath]_vars

\* The provider the claimed rule gives a path.
ProviderByRule(path) ==
    CHOOSE p \in Providers :
        /\ Contains(path, PathGeminiPrefix) => p = "Gemini"
        /\ (~Contains(path, PathGeminiPrefix) /\ Contains(path, PathMessages))
               => p = "Claude"
        /\ (~Contains(path, PathGeminiPrefix) /\ ~Contains(path, PathMessages)
               /\ Contains(path, PathResponses)) => p = "OpenAI"
        /\ (~Contains(path, PathGeminiPrefix) /\ ~Contains(path, PathMessages)
               /\ ~Contains(path, PathResponses)) => p = "Cerebras"

\* C32: the provider a fault response is shaped for depends on the request
\* path alone: Gemini if the path contains "/v1beta/models", else Claude if
\* it contains "/v1/messages", else OpenAI if it contains "/v1/responses",
\* else Cerebras, whatever the configuration, the header and the fault kind.
C32_ProviderFromPathOnly ==
    \A r \in Requests :
        (Answered(r) /\ req[r].handler = "none") =>
            /\ req[r].provider = ProviderByRule(req[r].path)
            /\ req[r].resp[1].kind \in ErrorTypes
            /\ req[r].resp[1].envelope = Envelope(ProviderByRule(req[r].path))
            /\ req[r].path \in {PathChat, PathHealth} => req[r].provider = "Cerebras"

\* A fault response on a path that holds both "/v1/messages" and
\* "/v1beta/models" was shaped for Gemini.
C32_Witness ==
    \E r \in Requests :
        /\ Answered(r) /\ req[r].handler = "none"
        /\ req[r].path = PathMessages \o PathGeminiPrefix
        /\ req[r].provider = "Gemini"
        /\ req[r].resp[1].envelope = "google"

(***************************************************************************)
(* The generator lock.  should_error's probabilistic rule, step by step:   *)
(* rng.lock(), rng.f32(), rng.u8(0..3), and the drop of the guard at the   *)
(* end of the block.  Here rng is the Mutex<Rng>: the generator's value,   *)
(* the request holding the lock (0: none), the value the generator was     *)
(* seeded to, and the history of draws (which request drew which value).   *)
(* The guard gives its holder access to the generator; exclusion comes     *)
(* from lock() alone.                                                      *)
(***************************************************************************)
NewMutex(g) == [value |-> g, holder |-> 0, seeded |-> g, log |-> <<>>]

\* Mutant: lock() returns without waiting for the holder to release.
should_error_lock_no_wait(r) ==
    /\ req[r].pc = "draw"
    /\ rng' = [rng EXCEPT !.holder = r]
    /\ req' = [req EXCEPT ![r].pc = "f32", ![r].locked_at = rng.value]
    /\ UNCHANGED <<config, request_count, gen, stream>>

\* config.rs line 217: self.rng.lock().unwrap() blocks until the lock is free.
should_error_lock(r) ==
    /\ req[r].pc = "draw"
    /\ rng.holder = 0
    /\ rng' = [rng EXCEPT !.holder = r]
    /\ req' = [req EXCEPT ![r].pc = "f32", ![r].locked_at = rng.value]
    /\ UNCHANGED <<config, request_count, gen, stream>>

\* Line 218: rng.f32() < error_rate, the hit test.
should_error_f32(r) ==
    /\ req[r].pc = "f32"
    /\ LET g1 == RngStep(rng.value) IN
         /\ rng' = [rng EXCEPT !.value = g1,
                               !.log = Append(@, [by |-> r, value |-> g1])]
         /\ IF RngF32(g1) < config.error_rate
            THEN req' = [req EXCEPT ![r].pc = "u8", ![r].draws = 1]
            ELSE req' = [req EXCEPT ![r].pc = "unlock", ![r].draws = 1,
                                    ![r].fault = "None"]
    /\ UNCHANGED <<config, request_count, gen, stream>>

\* Line 220: rng.u8(0..3), the kind selection.
should_error_u8(r) ==
    /\ req[r].pc = "u8"
    /\ LET g2 == RngStep(rng.value)
           k == RngU8(g2) IN
         /\ rng' = [rng EXCEPT !.value = g2,
                               !.log = Append(@, [by |-> r, value |-> g2])]
         /\ req' = [req EXCEPT
                ![r].pc = "unlock", ![r].draws = 2,
                ![r].fault = IF k = 0 THEN "Unauthorized"
                             ELSE IF k = 1 THEN "RateLimit" ELSE "ServerError"]
    /\ UNCHANGED <<config, request_count, gen, stream>>

\* The guard is dropped as should_error returns (lines 224-228), and
\* error_middleware answers or runs the handler (lib.rs 136-141).
should_error_unlock(r) ==
    /\ req[r].pc = "unlock"
    /\ rng' = [rng EXCEPT !.holder = IF @ = r THEN 0 ELSE @]
    /\ IF req[r].fault # "None"
       THEN req' = [req EXCEPT
                ![r].pc = "done",
                ![r].resp = Append(@, error_response(req[r].fault,
                                          provider_from_path(req[r].path)))]
       ELSE req' = [req EXCEPT ![r].pc = "dispatch"]
    /\ UNCHANGED <<config, request_count, gen, stream>>

LockConfigSpace ==
    [latency_ms : {0},
     fail_after_requests : {0},
     error_rate : ErrorRates,
     force_error : {"None"},
     require_auth : {FALSE},
     valid_keys : {<<>>},
     providers : {AllEnabled}]

\* MaxRequests requests have been counted and stand before should_error.
InitLock ==
    /\ config \in LockConfigSpace
    /\ request_count = MaxRequests
    /\ rng \in {NewMutex(g) : g \in RngStates}
    /\ req = [r \in 1..MaxRequests |->
                 [NewRequest EXCEPT !.pc = "fault", !.path = PathMessages,
                                    !.ticket = r] @@ [locked_at |-> 0]]
    /\ gen = <<>> /\ stream = <<>>

NextLock ==
    \/ \E r \in Requests : error_middleware_fault(r)
    \/ \E r \in Requests : should_error_lock(r)
    \/ \E r \in Requests : should_error_f32(r)
    \/ \E r \in Requests : should_error_u8(r)
    \/ \E r \in Requests : should_error_unlock(r)
    \/ \E r \in Requests : error_middleware_next(r)

SpecLock == InitLock /\ [][NextLock]_vars

\* The positions of the shared draw sequence that request r drew.
DrawsOf(r) == {i \in 1..Len(rng.log) : rng.log[i].by = r}

\* C33: under any interleaving of concurrent requests, the draws of one
\* fault decision are consecutive draws of the shared sequence (nothing
\* of another request lies between the hit test and the kind selection),
\* the shared sequence is the seeded generator's sequence with no value
\* skipped or handed out twice, each request draws at most twice, and its
\* decision is the one should_error makes alone on the generator it locked.
C33_DrawsUnderOneLock ==
    /\ \A r \in Requests :
         /\ \A i, j \in DrawsOf(r) : i < j => j = i + 1
         /\ Cardinality(DrawsOf(r)) = req[r].draws
         /\ req[r].draws <= 2
         /\ req[r].pc \in {"unlock", "dispatch", "done"} /\ req[r].draws > 0 =>
              LET d == should_error_random(config, req[r].locked_at) IN
              /\ req[r].fault = d.error
              /\ req[r].draws = d.draws
    /\ \A i \in 1..Len(rng.log) :
         rng.log[i].value = RngStep(IF i = 1 THEN rng.seeded ELSE rng.log[i - 1].value)
    /\ rng.value = (IF rng.log = <<>> THEN rng.seeded ELSE rng.log[Len(rng.log)].value)
    /\ \A r, q \in Requests :
         (r # q /\ req[r].pc \in {"f32", "u8", "unlock"})
             => req[q].pc \notin {"f32", "u8", "unlock"}

\* Two requests each made both draws, one after the other had finished.
C33_Witness ==
    /\ Len(rng.log) = 4
    /\ \A r \in 1..2 : req[r].draws = 2 /\ req[r].pc = "done"
    /\ rng.log[1].by = rng.log[2].by
    /\ rng.log[3].by = rng.log[4].by
    /\ rng.log[1].by # rng.log[3].by

(***************************************************************************)
(* Two RuntimeStates built from one configuration.  Here request_count and *)
(* rng hold one entry per RuntimeState and req holds, per RuntimeState,    *)
(* its requests in the order they entered error_middleware.  The requests  *)
(* of one RuntimeState may overlap: each goes through error_middleware's   *)
(* steps on its own (lib.rs, line 121 and line 136), and a request may     *)
(* enter while earlier ones are still inside.  alone records that a        *)
(* request entered when every earlier one had returned.                    *)
(***************************************************************************)
\* Mutant: the generator is seeded from system entropy in either mode.
RuntimeState_new_entropy(cfg, entropy) ==
    [request_count |-> 0, rng |-> RngWithSeed(entropy)]

\* RuntimeState::new: the seed is config.content.seed in deterministic mode
\* and fastrand::u64(..), here entropy, otherwise.
RuntimeState_new(cfg, entropy) ==
    [request_count |-> 0,
     rng |-> RngWithSeed(IF cfg.deterministic THEN cfg.seed ELSE entropy)]

ContentSeeds == {42, 7}

\* Every fault configuration, in deterministic mode, with either seed.
TwinConfigSpace ==
    [latency_ms : {0},
     fail_after_requests : 0..MaxFailAfter,
     error_rate : ErrorRates,
     force_error : {"None", "Timeout"},
     require_auth : {FALSE},
     valid_keys : {<<>>},
     providers : {AllEnabled},
     deterministic : {TRUE},
     seed : ContentSeeds]

\* error_middleware, line 121, on RuntimeState k: a request enters and
\* state.increment_requests() counts it.
increment_requests_on(k) ==
    /\ Len(req[k]) < MaxSeqRequests
    /\ LET inc == increment_requests(request_count[k]) IN
         /\ request_count' = [request_count EXCEPT ![k] = inc.count]
         /\ req' = [req EXCEPT ![k] = Append(@,
                      [pc |-> "fault", ticket |-> inc.returned,
                       fault |-> "unevaluated",
                       alone |-> \A i \in 1..Len(req[k]) : req[k][i].pc = "done"])]
    /\ UNCHANGED <<config, rng, gen, stream>>

\* error_middleware, line 136, on RuntimeState k: should_error up to the
\* threshold rule, which reads the counter as it is now.
should_error_on(k, r) ==
    /\ req[k][r].pc = "fault"
    /\ LET f == should_error_fixed(config, request_count[k]) IN
         req' = [req EXCEPT ![k][r] =
                   IF f.decided THEN [@ EXCEPT !.pc = "done", !.fault = f.error]
                   ELSE IF config.error_rate > 0 THEN [@ EXCEPT !.pc = "draw"]
                   ELSE [@ EXCEPT !.pc = "done", !.fault = "None"]]
    /\ UNCHANGED <<config, request_count, rng, gen, stream>>

\* The rest of should_error when error_rate > 0: the probabilistic rule on
\* the generator of RuntimeState k, both draws under one hold of its lock.
should_error_draw_on(k, r) ==
    /\ req[k][r].pc = "draw"
    /\ LET d == should_error_random(config, rng[k]) IN
         /\ rng' = [rng EXCEPT ![k] = d.rng]
         /\ req' = [req EXCEPT ![k][r] = [@ EXCEPT !.pc = "done", !.fault = d.error]]
    /\ UNCHANGED <<config, request_count, gen, stream>>

InitTwin ==
    /\ config \in TwinConfigSpace
    /\ \E e1, e2 \in RngStates :
         LET s1 == RuntimeState_new(config, e1)
             s2 == RuntimeState_new(config, e2) IN
         /\ request_count = <<s1.request_count, s2.request_count>>
         /\ rng = <<s1.rng, s2.rng>>
    /\ req = << <<>>, <<>> >>
    /\ gen = <<>> /\ stream = <<>>

NextTwin ==
    \/ \E k \in 1..2 : increment_requests_on(k)
    \/ \E k \in 1..2 : \E r \in 1..Len(req[k]) : should_error_on(k, r)
    \/ \E k \in 1..2 : \E r \in 1..Len(req[k]) : should_error_draw_on(k, r)

SpecTwin == InitTwin /\ [][NextTwin]_vars

\* The n-th request of RuntimeState k has been answered, and the requests
\* up to it were served one after the other: each entered when the earlier
\* ones had returned, and none entered while the n-th was inside.
ServedInSequence(k, n) ==
    /\ n <= Len(req[k])
    /\ req[k][n].pc = "done"
    /\ \A i \in 1..n : req[k][i].alone
    /\ n < Len(req[k]) => req[k][n + 1].alone

\* The fault decision of the k-th of a sequence of requests, read off k,
\* the configuration and the draws of the seeded generator: the forced
\* fault; else RateLimit from the threshold on; else, with a positive rate,
\* a hit when the next draw is below the rate, the kind given by the draw
\* after it.  DrawsBefore(cfg, k) is the number of draws the requests before
\* the k-th have used: one for a miss, two for a hit.
RECURSIVE FaultOfKth(_, _), DrawsBefore(_, _)
FaultOfKth(cfg, k) ==
    IF cfg.force_error # "None" THEN cfg.force_error
    ELSE IF cfg.fail_after_requests > 0 /\ k >= cfg.fail_after_requests
    THEN "RateLimit"
    ELSE IF cfg.error_rate = 0 THEN "None"
    ELSE LET p == DrawsBefore(cfg, k) IN
         IF RngF32(DrawAt(cfg.seed, p + 1)) >= cfg.error_rate THEN "None"
         ELSE <<"Unauthorized", "RateLimit", "ServerError">>
                  [RngU8(DrawAt(cfg.seed, p + 2)) + 1]
DrawsBefore(cfg, k) ==
    IF k = 1 THEN 0
    ELSE DrawsBefore(cfg, k - 1)
         + (IF FaultOfKth(cfg, k - 1) = "None" THEN 1 ELSE 2)

\* C34: in deterministic mode, the k-th should_error result of one
\* RuntimeState equals the k-th result of any other RuntimeState built from
\* the same configuration, for every k both have served in sequence, and
\* it is the decision that k, the configuration and the draws of the
\* generator seeded with content.seed determine.
C34_SameSeedSameFaults ==
    config.deterministic =>
        /\ \A n \in 1..MaxSeqRequests :
             (ServedInSequence(1, n) /\ ServedInSequence(2, n))
                 => req[1][n].fault = req[2][n].fault
        /\ \A k \in 1..2 : \A n \in 1..MaxSeqRequests :
             ServedInSequence(k, n) => req[k][n].fault = FaultOfKth(config, n)

\* In deterministic mode both states served MaxSeqRequests requests in
\* sequence under the probabilistic rule, which hit for one request and
\* missed another.
C34_Witness ==
    /\ config.deterministic
    /\ config.error_rate = 50 /\ config.force_error = "None"
    /\ config.fail_after_requests = 0
    /\ \A k \in 1..2 : ServedInSequence(k, MaxSeqRequests)
    /\ \E i, j \in 1..MaxSeqRequests : req[1][i].fault = "None" /\ req[1][j].fault # "None"

\* C35: in a chat-completions stream, on the tool path and the text path,
\* a written fragment carries a usage object only if it is the final chunk
\* (the one with finish_reason) and the request set
\* stream_options.include_usage; and the final chunk of such a request does
\* carry one, with total = prompt + completion.
C35_UsageOnFinalChunkIffAsked ==
    \A s \in Streams :
        (stream[s].provider = "Cerebras" /\ stream[s].pc = "streaming") =>
            LET w == Written(s) IN
            \A i \in 1..Len(w) :
                /\ w[i].usage # NoUsage
                     <=> (w[i].kind = "final" /\ stream[s].request.include_usage)
                /\ w[i].usage # NoUsage
                     => w[i].usage.total = w[i].usage.input + w[i].usage.output

\* A chat-completions text stream that asked for usage was written to its
\* end: content deltas without usage, then the final chunk with it.
C35_Witness ==
    \E s \in Streams :
        /\ stream[s].provider = "Cerebras" /\ StreamEnded(s)
        /\ stream[s].request.include_usage /\ ~stream[s].wants_tools
        /\ LET w == Written(s) IN
             /\ \E i \in 1..Len(w) : w[i].kind = "content" /\ w[i].usage = NoUsage
             /\ w[Len(w) - 1].kind = "final" /\ w[Len(w) - 1].usage # NoUsage

\* The events that may follow event f in a well-bracketed Messages stream.
MayFollow(f, g) ==
    IF f.type = "message_start"
    THEN g.type = "content_block_start" /\ g.index = 0
    ELSE IF f.type \in {"content_block_start", "content_block_delta"}
    THEN g.type \in {"content_block_delta", "content_block_stop"} /\ g.index = f.index
    ELSE IF f.type = "content_block_stop"
    THEN \/ g.type = "content_block_start" /\ g.index = f.index + 1
         \/ g.type = "message_delta"
    ELSE IF f.type = "message_delta"
    THEN g.type = "message_stop"
    ELSE FALSE

\* C36: in a Messages stream, with or without a thinking block, on the tool
\* path and the text path: message_start is the first event and occurs
\* once; a content_block_start with index i is followed by
\* content_block_delta events with index i only and then by the
\* content_block_stop with index i before another block starts; block
\* indices are 0, 1, ...; after the last content_block_stop comes the one
\* message_delta, which alone carries stop_reason; and the one message_stop
\* is the last event.
C36_MessagesStreamBracketed ==
    \A s \in Streams :
        (stream[s].provider = "Claude" /\ stream[s].pc = "streaming") =>
            LET w == Written(s)
                n == Len(w) IN
            /\ n >= 1 => w[1].type = "message_start"
            /\ \A i \in 2..n : MayFollow(w[i - 1], w[i])
            /\ \A i \in 1..n :
                 /\ w[i].type \in {"message_start", "content_block_start",
                                   "content_block_delta", "content_block_stop",
                                   "message_delta", "message_stop"}
                 /\ w[i].type = "message_delta"
                      <=> w[i].finish \in {"tool_use", "end_turn"}
                 /\ w[i].type # "message_delta" => w[i].finish = "none"
            /\ StreamEnded(s) =>
                 /\ w[n].type = "message_stop"
                 /\ Cardinality({i \in 1..n : w[i].type = "message_delta"}) = 1
                 /\ Cardinality({i \in 1..n : w[i].type = "message_stop"}) = 1
                 /\ Cardinality({i \in 1..n : w[i].type = "content_block_start"})
                      = (IF stream[s].wants_thinking THEN 2 ELSE 1)

\* A Messages stream with a thinking block (index 0, with thinking deltas)
\* and a text block (index 1, with a text delta) was written to its end.
C36_Witness ==
    \E s \in Streams :
        /\ stream[s].provider = "Claude" /\ StreamEnded(s)
        /\ stream[s].wants_thinking /\ ~stream[s].wants_tools
        /\ LET w == Written(s) IN
             /\ \E i \in 1..Len(w) :
                  w[i].type = "content_block_stop" /\ w[i].index = 0
             /\ \E i, j \in 1..Len(w) :
                  /\ i < j
                  /\ w[i].kind = "thinking_delta" /\ w[i].index = 0
                  /\ w[j].kind = "text_delta" /\ w[j].index = 1

\* C37: in a Responses stream, on the tool path and the text path and for
\* any number of text chunks, the i-th event written carries sequence_number
\* i (from 0), so there are no gaps and no repeats; response.created is the
\* first event and only the first; response.completed is the last event,
\* only the last, and carries the highest sequence_number.
C37_SequenceNumbers ==
    \A s \in Streams :
        (stream[s].provider = "OpenAI" /\ stream[s].pc = "streaming") =>
            LET w == Written(s)
                n == Len(w) IN
            /\ \A i \in 1..n :
                 /\ w[i].seq = i - 1
                 /\ w[i].type = "response.created" <=> i = 1
                 /\ w[i].type = "response.completed"
                      => i = Len(Constructed(s))
            /\ StreamEnded(s) =>
                 /\ w[n].type = "response.completed"
                 /\ \A i \in 1..(n - 1) : w[i].seq < w[n].seq

\* A Responses text stream with two text deltas was written to its end.
C37_Witness ==
    \E s \in Streams :
        /\ stream[s].provider = "OpenAI" /\ StreamEnded(s) /\ ~stream[s].wants_tools
        /\ LET w == Written(s) IN
             /\ Cardinality({i \in 1..Len(w) : w[i].kind = "output_text_delta"}) = 2
             /\ w[Len(w)].seq = 9

\* The types of the three events that close the text of a Responses stream.
TextDoneTypes ==
    {"response.output_text.done", "response.content_part.done",
     "response.output_item.done"}

\* The payloads of the response.output_text.delta events among the first
\* n events written, in order.
DeltasBefore(s, n) ==
    LET sel == SelectSeq(SubSeq(Written(s), 1, n),
                         LAMBDA f : f.type = "response.output_text.delta") IN
    [i \in 1..Len(sel) |-> sel[i].text]

\* C38: in a Responses text stream, response.output_text.done,
\* response.content_part.done and response.output_item.done each carry the
\* in-order concatenation of the payloads of all response.output_text.delta
\* events written before them (hence the same string), and no delta is
\* written after the first of them.
C38_DoneTextIsJoinedDeltas ==
    \A s \in Streams :
        (stream[s].provider = "OpenAI" /\ stream[s].pc = "streaming"
         /\ ~stream[s].wants_tools) =>
            LET w == Written(s) IN
            \A i \in 1..Len(w) :
                /\ w[i].type \in TextDoneTypes =>
                     w[i].text = concat(DeltasBefore(s, i - 1))
                /\ (w[i].type = "response.output_text.delta" /\ i > 1) =>
                     w[i - 1].type \notin TextDoneTypes
                /\ \A j \in 1..Len(w) :
                     (w[i].type \in TextDoneTypes /\ w[j].type \in TextDoneTypes)
                         => w[i].text = w[j].text

\* A Responses text stream was written to its end with two deltas, the
\* second one starting with the separating space, and all three closing
\* events.
C38_Witness ==
    \E s \in Streams :
        /\ stream[s].provider = "OpenAI" /\ StreamEnded(s) /\ ~stream[s].wants_tools
        /\ Len(DeltasBefore(s, Len(Written(s)))) = 2
        /\ Head(DeltasBefore(s, Len(Written(s)))[2]) = " "
        /\ {Written(s)[i].type : i \in 1..Len(Written(s))} \cap TextDoneTypes
             = TextDoneTypes

(***************************************************************************)
(* is_valid_key and should_error on one counted request, for every         *)
(* configuration, header, counter value and generator state.               *)
(***************************************************************************)
FrameConfigSpace ==
    [latency_ms : {0},
     fail_after_requests : 0..MaxFailAfter,
     error_rate : ErrorRates,
     force_error : ForceErrors,
     require_auth : BOOLEAN,
     valid_keys : {<<Key1>>},
     providers : {AllEnabled}]

InitFrame ==
    /\ config \in FrameConfigSpace
    /\ request_count \in 1..MaxCount
    /\ rng \in RngStates
    /\ \E h \in {NoHeader, HdrBearerK1, HdrBearerWrong} :
         req = << [NewRequest EXCEPT !.pc = "auth", !.path = PathMessages,
                                     !.header = h, !.ticket = 1] >>
    /\ gen = <<>> /\ stream = <<>>

NextFrame ==
    \/ \E r \in Requests : error_middleware_auth(r)
    \/ \E r \in Requests : should_error_call(r)
    \/ \E r \in Requests : error_middleware_next(r)

SpecFrame == InitFrame /\ [][NextFrame]_vars

\* C39: a call of should_error that is decided by a forced fault or by the
\* threshold rule, or that is made with error_rate = 0, leaves the shared
\* generator as it was; and no call of is_valid_key or of should_error
\* changes request_count.
C39_FrameOfFaultDecision ==
    [][\A r \in Requests :
         /\ (req[r].pc = "fault" /\ req'[r].pc # "fault"
             /\ \/ config.force_error # "None"
                \/ (config.fail_after_requests > 0
                    /\ request_count >= config.fail_after_requests)
                \/ config.error_rate = 0)
               => rng' = rng /\ req'[r].draws = 0
         /\ (req[r].pc \in {"auth", "fault"} /\ req'[r].pc # req[r].pc)
               => request_count' = request_count]_vars

\* After a passed credential check, should_error returned a forced fault
\* or a threshold fault under error_rate = 100, having made no draw.
C39_Witness ==
    \E r \in Requests :
        /\ config.error_rate = 100
        /\ req[r].pc = "done" /\ req[r].draws = 0
        /\ \/ config.force_error = "Timeout" /\ req[r].fault = "Timeout"
           \/ config.force_error = "None" /\ req[r].fault = "RateLimit"
        /\ config.require_auth

(***************************************************************************)
(* The credential check on headers with and without the Bearer scheme,     *)
(* against key lists that also hold keys spelt with a scheme.              *)
(***************************************************************************)
BearerKeys == {Key1, Key2}

HdrLeadingSpaceK1 == <<" ">> \o BearerPrefix \o Key1

BearerHeaders ==
    Headers \cup {k : k \in BearerKeys}
            \cup {BearerPrefix \o BearerPrefix \o k : k \in BearerKeys}
            \cup {HdrLeadingSpaceK1}

BearerConfigSpace ==
    [latency_ms : {0},
     fail_after_requests : {0},
     error_rate : {0},
     force_error : {"None"},
     require_auth : {TRUE},
     valid_keys : KeyLists \cup {<<HdrLowerBearerK1>>, <<HdrBearerK1>>},
     providers : {AllEnabled}]

InitBearer ==
    /\ config \in BearerConfigSpace
    /\ request_count = 1
    /\ rng \in EntropyRng(config)
    /\ \E h \in BearerHeaders :
         req = << [NewRequest EXCEPT !.pc = "auth", !.path = PathMessages,
                                     !.header = h, !.ticket = 1] >>
    /\ gen = <<>> /\ stream = <<>>

SpecBearer == InitBearer /\ [][NextAuth]_vars

\* n copies of "Bearer " in a row.
RECURSIVE Repeated(_)
Repeated(n) == IF n = 0 THEN <<>> ELSE BearerPrefix \o Repeated(n - 1)

\* c is header value h with every leading repetition of "Bearer " removed
\* and the surrounding whitespace trimmed.
IsCredentialOf(c, h) ==
    \E n \in 0..Len(h), a \in 0..Len(h), b \in 0..Len(h) :
        LET rest == SubSeq(h, n * Len(BearerPrefix) + 1, Len(h)) IN
        /\ n * Len(BearerPrefix) <= Len(h)
        /\ SubSeq(h, 1, n * Len(BearerPrefix)) = Repeated(n)
        /\ ~IsPrefix(BearerPrefix, rest)
        /\ a + b <= Len(rest)
        /\ c = SubSeq(rest, a + 1, Len(rest) - b)
        /\ \A i \in 1..a : IsWhitespace(rest[i])
        /\ \A i \in (Len(rest) - b + 1)..Len(rest) : IsWhitespace(rest[i])
        /\ c # <<>> => ~IsWhitespace(Head(c)) /\ ~IsWhitespace(c[Len(c)])

Accepted(r) == PastAuth(r) /\ ~RejectedByAuth(r)

\* C40: with auth required, a request passes the credential check iff its
\* Authorization value is readable and, with every leading "Bearer "
\* removed and then trimmed, equals an element of valid_keys.  So "k",
\* "Bearer k" and "Bearer Bearer k" pass iff k is in valid_keys, for the keys
\* k of BearerKeys, while "bearer k" passes iff "bearer k" itself is in
\* valid_keys.
C40_CredentialIsStrippedHeader ==
    \A r \in Requests :
        (config.require_auth /\ PastAuth(r)) =>
            LET h == req[r].header IN
            /\ Accepted(r) <=>
                 /\ h # NoHeader /\ ToStr(h) # NoHeader
                 /\ \E i \in 1..Len(config.valid_keys) :
                      IsCredentialOf(config.valid_keys[i], h)
            /\ \A k \in BearerKeys :
                 h \in {k, BearerPrefix \o k, BearerPrefix \o BearerPrefix \o k}
                     => (Accepted(r) <=> SeqContains(config.valid_keys, k))
            /\ h = HdrLowerBearerK1
                 => (Accepted(r) <=> SeqContains(config.valid_keys, HdrLowerBearerK1))

\* "Bearer Bearer k1" passed the check against the key k1.
C40_Witness ==
    \E r \in Requests :
        /\ config.require_auth /\ config.valid_keys = <<Key1>>
        /\ req[r].header = HdrDoubleBearerK1
        /\ Accepted(r) /\ Answered(r) /\ StatusOf(r) = 200

====
